---------------------------- MODULE Spec2Model ----------------------------
(***************************************************************************)
(* A model of the client-side extent engine of cubefs                      *)
(* (sdk/data/extent_client.go): the engine facade ExtentClient, its        *)
(* streamer registry, the per-inode streamers, the rate limiters and the   *)
(* shutdown sequence; and of the directory listing of the drive node.      *)
(*                                                                         *)
(* The module holds several specifications over one set of variables; each *)
(* specification moves one group of variables and leaves the others at     *)
(* their initial values:                                                   *)
(*   SpecRate   the two rate limiters: constructor, SetReadRate,           *)
(*              SetWriteRate, updateConfig                                 *)
(*   SpecGetRate  SpecRate with GetRate, on either build                   *)
(*   SpecLife   the streamer registry and the streamers' lifecycle:        *)
(*              OpenStream, CloseStream, MustCloseStream, EvictStream and  *)
(*              the streamers' workers                                     *)
(*   SpecData   the data path of one file: Write, Flush and Read, the      *)
(*              one-shot extent fetch, the extent cache and the overwrite  *)
(*              buffer                                                     *)
(*   SpecCache  the operations that change the extent cache of one file:   *)
(*              Write, Truncate, Flush, ExtentMerge, RefreshExtentsCache,  *)
(*              and FileSize                                               *)
(*   SpecRead   Read with every outcome of its steps: the first attempt,   *)
(*              the expiry check, the Flush, the refetch, the retry        *)
(*   SpecClose  the background tasks (config refresher, merger) and Close, *)
(*              next to a caller that opens streams; the master changes    *)
(*              the volume's read rate and the merge targets               *)
(*   SpecSetup  NewExtentClient's mount loop and SetExtentSize             *)
(*   SpecEmpty  Write of no bytes and Read of size 0                       *)
(*   SpecOpened one caller's data calls, SyncWrite among them, on a file   *)
(*              that is open from the start                                *)
(*   SpecEvict  Writes and EvictStream on an open file, with the callers   *)
(*              and the worker going on (weak fairness)                    *)
(*   SpecTerminal  the lifecycle calls next to Write, Truncate, Flush and  *)
(*              ExtentMerge on an open file: requests to a Terminal        *)
(*              streamer                                                   *)
(*   SpecPanic  SpecClose with panics inside the background tasks          *)
(*   SpecSignal the refresher's merge signal, with a master that changes   *)
(*              the merge targets                                          *)
(*   SpecLatch  two callers' Read, Write, Truncate and ExtentMerge on a    *)
(*              file just opened: the one-shot fetch                       *)
(*   SpecMerge  the merger's rounds over two inodes, next to a caller and  *)
(*              to the stop signal                                         *)
(*   SpecLock   SpecTerminal with MustCloseStream: the segment locks       *)
(*   SpecStop   SpecSignal with the tasks and Close going on (fairness):   *)
(*              does Close return                                          *)
(*   SpecRefetch  SpecLatch with RefreshExtentsCache: a fetch that failed  *)
(*   SpecFacade every facade call on a file that is open or not, on a      *)
(*              volume that exists or not                                  *)
(*   SpecList   the drive node's paged directory listing (handleListDir,   *)
(*              listDir), which is a program of its own                    *)
(***************************************************************************)
EXTENDS Integers, Sequences, FiniteSets, TLC

(***************************************************************************)
(* Bounds of the model.                                                    *)
(***************************************************************************)
\* Rates handed to the constructor, SetReadRate and SetWriteRate range over
\* -1 .. MaxRate.  An entry of the master's maps (uint64) is absent, zero or
\* MaxRate.
MaxRate == 2

\* Calls of SetReadRate, SetWriteRate and GetRate made in one behaviour.
MaxRateCalls == 2

\* Calls of the facade made in one behaviour, by all callers together.
MaxCalls == 3

\* OpenStream is not started once this many streamers have been created.
MaxStreamers == 2

\* The ranges <<offset, length>> a Write or a Read names, and the sizes
\* Truncate takes.
Ranges == {<<0, 1>>, <<0, 2>>, <<1, 1>>}

Sizes == {0, 1}

\* The ranges a Write names where Truncate and ExtentMerge are called too.
CacheRanges == {<<0, 1>>, <<1, 1>>}

\* The threads that call the facade, and the inodes they name.
Callers == {"a", "b"}

\* The thread that calls Close, and the client's own merger thread
\* (BackgroundExtentMerge); both call the facade too.
Closer == "k"

Merger == "m"

Threads == Callers \cup {Closer, Merger}

Inodes == {1, 2}

VARIABLES
    \* ---- the streamer registry and the streamers
    registry,         \* inode -> id of the registered streamer, 0 when absent
    shardLock,        \* shard -> "free" or the caller holding the write lock
    nextSid,          \* id the next streamer created gets
    st,               \* streamer id -> the streamer's state
    call,             \* caller -> the facade call it is in, or made last
    calls,            \* caller -> number of calls it has started

    \* ---- the data path
    volNotExists,     \* dataWrapper.VolNotExists()
    store,            \* extent id -> the bytes of the extent on its partition
    meta,             \* inode -> the metadata service's extents, size, generation
    hist,             \* inode -> history of the data calls, kept for the properties

    \* ---- the background tasks and Close
    bg,               \* stopC, the config refresher, the merger and its inode list
    shut,             \* the call of Close and what it has closed

    \* ---- construction
    mount,            \* NewExtentClient: where it is, the retries left, what it did
    extentSize,       \* client.extentSize
    sizeArg,          \* the size last handed to SetExtentSize

    \* ---- the drive node's directory listing
    drive,            \* the directory, the request and the pages handed out

    \* ---- rate limiting (ExtentClient fields, extent_client.go:113-118)
    originReadRate,   \* client.originReadRate  (int64)
    originWriteRate,  \* client.originWriteRate (int64)
    readRate,         \* client.readRate  (uint64), set by updateConfig
    writeRate,        \* client.writeRate (uint64), set by updateConfig
    readLimiter,      \* limit of client.readLimiter:  [inf, v]
    writeLimiter,     \* limit of client.writeLimiter: [inf, v]
    satConv,          \* the build: does float64 -> int saturate when out of range
    rateCall,         \* the caller's SetReadRate, SetWriteRate or GetRate
    rateHist          \* history of the calls, kept for the properties

rateVars == <<originReadRate, originWriteRate, readRate, writeRate,
              readLimiter, writeLimiter, satConv, rateCall, rateHist>>

lifeVars == <<registry, shardLock, nextSid, st, call, calls>>

dataVars == <<volNotExists, store, meta, hist>>

closeVars == <<bg, shut>>

setupVars == <<mount, extentSize, sizeArg, drive>>

vars == <<rateVars, lifeVars, dataVars, closeVars, setupVars>>

notRate == <<lifeVars, dataVars, closeVars, setupVars>>

notLife == <<rateVars, dataVars, closeVars, setupVars>>

notData == <<rateVars, closeVars, setupVars>>

(***************************************************************************)
(* The streamer registry (ExtentClient.streamerConcurrentMap) and the      *)
(* streamers.                                                              *)
(*                                                                         *)
(* extent_client.go holds the facade; the registry's segments, the         *)
(* streamer, its request loop and its Issue*Request methods are in files   *)
(* of the package that are not part of the sources read here.  They are    *)
(* modelled from the specification (sections 3, 4.2, 4.7):                 *)
(*   - a segment per shard, shard = inode mod ShardCount, with one lock;   *)
(*   - Issue*Request queues a request on the streamer, releases the shard  *)
(*     lock when the caller holds it, and waits for the reply; on a        *)
(*     Terminal streamer it fails with Closed;                             *)
(*   - one worker per streamer serves the queue in order;                  *)
(*   - Open adds a handle; Release drops one and, when none is left,       *)
(*     drains the streamer, marks it Terminal and ends the worker;         *)
(*     Evict marks the streamer Terminal and fails what is pending with    *)
(*     Closed; the worker ends when it receives the done signal;           *)
(*   - the worker takes the streamer out of its segment as it ends.        *)
(***************************************************************************)
ShardCount == 2

ShardOf(i) == i % ShardCount

Shards == {ShardOf(i) : i \in Inodes}

\* streamerMapSeg.Lock() can proceed.
CanLockAlways(i) == TRUE

CanLock(i) == shardLock[ShardOf(i)] = "free"

Locked(c, i) == [shardLock EXCEPT ![ShardOf(i)] = c]

\* The segment stays locked.
UnlockedNever(i) == shardLock

\* streamerMapSeg.Unlock()
Unlocked(i) == [shardLock EXCEPT ![ShardOf(i)] = "free"]

(***************************************************************************)
(* The extent cache.  ExtentCache (s.extents) is not part of the sources   *)
(* read here; its operations follow the specification (sections 3, 4.3).   *)
(* An extent key is [fo, size, eid, eo]: size bytes of the file from       *)
(* fileOffset fo are the bytes of extent eid from extentOffset eo.  The    *)
(* keys of a file form a sequence.                                         *)
(***************************************************************************)
Max(a, b) == IF a > b THEN a ELSE b

Min(a, b) == IF a < b THEN a ELSE b

KeyEnd(k) == k.fo + k.size

Covers(k, p) == k.fo <= p /\ p < KeyEnd(k)

KeySet(keys) == {keys[j] : j \in 1 .. Len(keys)}

Covered(keys, p) == \E k \in KeySet(keys) : Covers(k, p)

KeyAt(keys, p) == CHOOSE k \in KeySet(keys) : Covers(k, p)

\* The first position from p on, below end, that starts a key; end if none.
NextKeyStart(keys, p, end) ==
    IF \E k \in KeySet(keys) : k.fo > p /\ k.fo < end
    THEN CHOOSE q \in p + 1 .. end - 1 :
             /\ \E k \in KeySet(keys) : k.fo = q
             /\ \A k \in KeySet(keys) : k.fo > p => k.fo >= q
    ELSE end

\* PrepareRequests(offset, size, data): the range off .. end - 1 split over
\* the keys into requests [fo, size, over, key]: an overwrite of one
\* existing key, or (over = FALSE) a range no key holds, to be appended.
NoKey == [fo |-> 0, size |-> 0, eid |-> 0, eo |-> 0]

RECURSIVE PrepareRequests(_, _, _)
PrepareRequests(keys, off, end) ==
    IF off >= end THEN <<>>
    ELSE IF Covered(keys, off)
         THEN LET k == KeyAt(keys, off)
                  e == Min(end, KeyEnd(k))
              IN  <<[fo |-> off, size |-> e - off, over |-> TRUE, key |-> k]>>
                      \o PrepareRequests(keys, e, end)
         ELSE LET e == NextKeyStart(keys, off, end)
              IN  <<[fo |-> off, size |-> e - off, over |-> FALSE, key |-> NoKey]>>
                      \o PrepareRequests(keys, e, end)

\* No request is taken for an append.
HasAppendNever(reqs) == FALSE

\* hasAppendWrite: a request without an extent key.
HasAppend(reqs) == \E j \in 1 .. Len(reqs) : ~reqs[j].over

RECURSIVE TotalSize(_)
TotalSize(reqs) ==
    IF reqs = <<>> THEN 0 ELSE Head(reqs).size + TotalSize(Tail(reqs))

\* The keys with the range lo .. hi - 1 taken out: a key inside the range
\* is dropped, a key across a border is shortened or split.
RECURSIVE CutRange(_, _, _)
CutRange(keys, lo, hi) ==
    IF keys = <<>> THEN <<>>
    ELSE LET k == Head(keys)
             left == IF k.fo < lo
                     THEN <<[k EXCEPT !.size = Min(KeyEnd(k), lo) - k.fo]>>
                     ELSE <<>>
             right == IF KeyEnd(k) > hi
                      THEN LET f == Max(k.fo, hi)
                           IN  <<[fo |-> f, size |-> KeyEnd(k) - f,
                                  eid |-> k.eid, eo |-> k.eo + (f - k.fo)]>>
                      ELSE <<>>
         IN  left \o right \o CutRange(Tail(keys), lo, hi)

\* The key put at its place by fileOffset, nothing taken out.
RECURSIVE InsertSorted(_, _)
InsertSorted(keys, key) ==
    IF keys = <<>> THEN <<key>>
    ELSE IF key.fo < Head(keys).fo THEN <<key>> \o keys
         ELSE <<Head(keys)>> \o InsertSorted(Tail(keys), key)

\* ExtentCache.Insert(key): the key replaces what the cache held of its range.
InsertKeepOld(keys, key) == InsertSorted(keys, key)

Insert(keys, key) == InsertSorted(CutRange(keys, key.fo, KeyEnd(key)), key)

\* fileOffset + size of the last key; 0 without keys.
RECURSIVE KeysEnd(_)
KeysEnd(keys) ==
    IF keys = <<>> THEN 0 ELSE Max(KeyEnd(Head(keys)), KeysEnd(Tail(keys)))

\* ExtentCache.Truncate(newSize): keys wholly past newSize dropped, the
\* boundary key shortened.
TruncateKeys(keys, newSize) ==
    CutRange(keys, newSize, Max(newSize, KeysEnd(keys)))

\* The byte of the file at position p: of the extent its key names, 0 in a hole.
ByteAt(keys, ext, p) ==
    IF Covered(keys, p)
    THEN LET k == KeyAt(keys, p) IN ext[k.eid][k.eo + (p - k.fo) + 1]
    ELSE 0

\* The bytes of the file from lo to hi - 1.
ReadRange(keys, ext, lo, hi) ==
    [j \in 1 .. (IF hi > lo THEN hi - lo ELSE 0) |-> ByteAt(keys, ext, lo + j - 1)]

\* The extents after the bytes b were written to extent eid from offset eo.
WriteExtent(ext, eid, eo, b) ==
    [ext EXCEPT ![eid] =
        [j \in 1 .. Max(Len(@), eo + Len(b)) |->
            IF j > eo /\ j <= eo + Len(b) THEN b[j - eo]
            ELSE IF j <= Len(@) THEN @[j] ELSE 0]]

\* len bytes of value tag.
Bytes(tag, len) == [j \in 1 .. len |-> tag]

\* The first pair of adjacent keys an ExtentMerge step merges: together
\* they are at least half an extent and at most one extent; 0 if none.
ExtentSize == 2

Mergeable(keys, j) ==
    /\ j < Len(keys)
    /\ KeyEnd(keys[j]) = keys[j + 1].fo
    /\ keys[j].size + keys[j + 1].size <= ExtentSize
    /\ 2 * (keys[j].size + keys[j + 1].size) >= ExtentSize

MergeAt(keys) ==
    IF \E j \in 1 .. Len(keys) : Mergeable(keys, j)
    THEN CHOOSE j \in 1 .. Len(keys) :
             Mergeable(keys, j) /\ \A h \in 1 .. j - 1 : ~Mergeable(keys, h)
    ELSE 0

\* NewStreamer(client, inode, ...): no handle, an empty queue, the extent
\* cache not yet fetched (latch new, initialized false), an empty overwrite
\* buffer.
NewStreamer(i) ==
    [inode |-> i, refcnt |-> 0, status |-> "Fresh", worker |-> "running",
     queue |-> <<>>, done |-> FALSE,
     latch |-> "new", initialized |-> FALSE,
     keys |-> <<>>, fileSize |-> 0, gen |-> 0, owb |-> <<>>]

\* A caller that is in no call and has made none.  off, len, owbf and tag
\* are the arguments of a data call (tag: the byte a Write writes); plan
\* holds the requests a Write has planned and not yet appended; n, hole
\* and got its results, dp and ek those of SyncWrite; want, seen, quiet,
\* flushed, trunc, refused (the request was not queued) and mine (the
\* streamer the merger's OpenStream of this round has opened) are kept for
\* the properties.
IdleCall ==
    [op |-> "none", pc |-> "idle", ino |-> 0, sid |-> 0, ret |-> "none",
     off |-> 0, len |-> 0, owbf |-> FALSE, tag |-> 0, plan |-> <<>>,
     n |-> 0, gen |-> 0, hole |-> FALSE, got |-> <<>>, finish |-> FALSE,
     row |-> FALSE, log |-> <<>>,
     want |-> <<>>, seen |-> <<>>, quiet |-> FALSE, flushed |-> <<>>,
     trunc |-> <<>>, dp |-> 0, ek |-> <<>>, refused |-> FALSE, mine |-> 0]

\* The streamer the merger thread has opened for the inode it works on: the
\* one its OpenStream returned nil on, kept over its later calls.
Opened(c) ==
    IF c # Merger THEN 0
    ELSE IF call[c].op = "OpenStream"
         THEN (IF call[c].ret = "nil" THEN call[c].sid ELSE 0)
         ELSE call[c].mine

\* InitConcurrentStreamerMap(): no streamer is registered.
InitRegistry ==
    /\ registry = [i \in Inodes |-> 0]
    /\ shardLock = [h \in Shards |-> "free"]
    /\ nextSid = 1
    /\ st = <<>>
    /\ call = [c \in Threads |-> IdleCall]
    /\ calls = [c \in Callers |-> 0]

Sids == DOMAIN st

\* A caller may start a call.
RECURSIVE Sum(_, _)
Sum(f, S) ==
    IF S = {} THEN 0
    ELSE LET x == CHOOSE x \in S : TRUE IN f[x] + Sum(f, S \ {x})

CanStart(c) ==
    /\ call[c].pc = "idle"
    /\ c \in Callers => Sum(calls, Callers) < MaxCalls

Started(c) == IF c \in Callers THEN [calls EXCEPT ![c] = @ + 1] ELSE calls

\* The callers whose requests are in a queue.
RECURSIVE Waiters(_)
Waiters(q) == IF q = <<>> THEN {} ELSE {Head(q).c} \cup Waiters(Tail(q))

AbortedNone(cl, ws) == cl

\* The calls after each caller in ws got the reply Closed.
Aborted(cl, ws) ==
    [c \in Threads |->
        IF c \in ws THEN [cl[c] EXCEPT !.pc = "idle", !.ret = "Closed"] ELSE cl[c]]

\* The call of c after the reply r to its request.  Read goes on to the
\* extent refetch after its Flush was served; every other call returns r.
Replied(cl, c, r) ==
    IF cl[c].op = "Read" /\ r = "nil"
    THEN [cl EXCEPT ![c].pc = "read:refetch", ![c].log = Append(@, "flush")]
    ELSE [cl EXCEPT ![c].pc = "idle", ![c].ret = r]

\* Issue*Request: the request of kind k of caller c is queued on streamer
\* s, unless s is Terminal: then the call fails with Closed.
IssueQueuesAlways(s) == TRUE

IssueQueues(s) == st[s].status # "Terminal"

\* The room of a streamer's request queue, which is bounded.
QueueCap == 1

\* The requests in the queue of streamer s its worker has not taken yet:
\* while the streamer drains, the Release at the head is in the worker's
\* hands.
Pending(s) == Len(st[s].queue) - (IF st[s].status = "Draining" THEN 1 ELSE 0)

\* The send of a request to streamer s can go on: the queue has room, or s
\* is Terminal and refuses the request.  Else the sender waits in the send.
CanIssue(s) == ~IssueQueues(s) \/ Pending(s) < QueueCap

\* The send itself, which the issuing actions take when CanIssue holds.
IssueSt(c, s, k) ==
    IF IssueQueues(s)
    THEN [st EXCEPT ![s].queue = Append(@, [kind |-> k, c |-> c])]
    ELSE st

IssueCall(c, s) ==
    IF IssueQueues(s)
    THEN [call EXCEPT ![c].pc = "wait"]
    ELSE [call EXCEPT ![c].pc = "idle", ![c].ret = "Closed", ![c].refused = TRUE]

\* ---- OpenStream(inode): lock the segment, look the streamer up, create
\* and register one when there is none, issue the Open request.
OpenLock(c, i) ==
    /\ CanStart(c)
    /\ nextSid <= MaxStreamers
    /\ CanLock(i)
    /\ shardLock' = Locked(c, i)
    /\ call' = [call EXCEPT ![c] = [IdleCall EXCEPT !.op = "OpenStream",
                                       !.pc = "open:lookup", !.ino = i]]
    /\ calls' = Started(c)
    /\ UNCHANGED <<registry, nextSid, st>>
    /\ UNCHANGED notLife

OpenLookup(c) ==
    /\ call[c].pc = "open:lookup"
    /\ call' = [call EXCEPT
            ![c].sid = registry[call[c].ino],
            ![c].pc = IF registry[call[c].ino] = 0 THEN "open:insert" ELSE "open:issue"]
    /\ UNCHANGED <<registry, shardLock, nextSid, st, calls>>
    /\ UNCHANGED notLife

OpenInsert(c) ==
    /\ call[c].pc = "open:insert"
    /\ st' = st @@ (nextSid :> NewStreamer(call[c].ino))
    /\ registry' = [registry EXCEPT ![call[c].ino] = nextSid]
    /\ nextSid' = nextSid + 1
    /\ call' = [call EXCEPT ![c].sid = nextSid, ![c].pc = "open:issue"]
    /\ UNCHANGED <<shardLock, calls>>
    /\ UNCHANGED notLife

OpenIssue(c) ==
    /\ call[c].pc = "open:issue"
    /\ CanIssue(call[c].sid)
    /\ st' = IssueSt(c, call[c].sid, "Open")
    /\ call' = IssueCall(c, call[c].sid)
    /\ shardLock' = Unlocked(call[c].ino)
    /\ UNCHANGED <<registry, nextSid, calls>>
    /\ UNCHANGED notLife

\* ---- CloseStream / MustCloseStream / EvictStream: lock the segment and
\* look the streamer up.
LookupLock(c, i, op) ==
    /\ CanStart(c)
    /\ CanLock(i)
    /\ shardLock' = Locked(c, i)
    /\ call' = [call EXCEPT ![c] = [IdleCall EXCEPT !.op = op,
                                       !.pc = "lookup", !.ino = i,
                                       !.mine = Opened(c)]]
    /\ calls' = Started(c)
    /\ UNCHANGED <<registry, nextSid, st>>
    /\ UNCHANGED notLife

CloseStream(c, i) == LookupLock(c, i, "CloseStream")

MustCloseStream(c, i) == LookupLock(c, i, "MustCloseStream")

EvictStream(c, i) == LookupLock(c, i, "EvictStream")

RequestOf(op) ==
    CASE op = "CloseStream" -> "Release"
      [] op = "MustCloseStream" -> "MustRelease"
      [] op = "EvictStream" -> "Evict"

\* No streamer is registered: unlock and return nil.
LookupAbsent(c) ==
    /\ call[c].pc = "lookup"
    /\ registry[call[c].ino] = 0
    /\ shardLock' = Unlocked(call[c].ino)
    /\ call' = Replied(call, c, "nil")
    /\ UNCHANGED <<registry, nextSid, st, calls>>
    /\ UNCHANGED notLife

\* A streamer is registered: issue the Release / MustRelease / Evict request.
LookupIssue(c) ==
    /\ call[c].pc = "lookup"
    /\ registry[call[c].ino] # 0
    /\ CanIssue(registry[call[c].ino])
    /\ LET s == registry[call[c].ino]
       IN  /\ st' = IssueSt(c, s, RequestOf(call[c].op))
           /\ call' = [IssueCall(c, s) EXCEPT ![c].sid = s]
    /\ shardLock' = Unlocked(call[c].ino)
    /\ UNCHANGED <<registry, nextSid, calls>>
    /\ UNCHANGED notLife

\* EvictStream after IssueEvictRequest returned nil: s.done <- struct{}{},
\* received by the worker.
EvictSignal(c) ==
    /\ call[c].pc = "evict:signal"
    /\ st[call[c].sid].worker = "running"
    /\ ~st[call[c].sid].done
    /\ st' = [st EXCEPT ![call[c].sid].done = TRUE]
    /\ call' = [call EXCEPT ![c].pc = "evict:wait"]
    /\ UNCHANGED <<registry, shardLock, nextSid, calls>>
    /\ UNCHANGED notLife

\* s.wg.Wait() can return: the worker of s has ended.
WaitReturnsAtOnce(s) == TRUE

WaitReturns(s) == st[s].worker = "exited"

\* EvictStream: s.wg.Wait() returns once the worker has ended.
EvictWait(c) ==
    /\ call[c].pc = "evict:wait"
    /\ WaitReturns(call[c].sid)
    /\ call' = Replied(call, c, "nil")
    /\ UNCHANGED <<registry, shardLock, nextSid, st, calls>>
    /\ UNCHANGED notLife

\* ---- the worker of streamer s
Serving(s, kinds) ==
    /\ st[s].worker = "running"
    /\ ~st[s].done
    /\ st[s].status \in {"Fresh", "Initialized"}
    /\ st[s].queue # <<>>
    /\ Head(st[s].queue).kind \in kinds

\* The registry without streamer s.
Removed(s) ==
    [i \in Inodes |-> IF registry[i] = s THEN 0 ELSE registry[i]]

\* Open: one more handle.
WorkerOpen(s) ==
    /\ Serving(s, {"Open"})
    /\ st' = [st EXCEPT ![s].refcnt = @ + 1, ![s].status = "Initialized",
                        ![s].queue = Tail(@)]
    /\ call' = Replied(call, Head(st[s].queue).c, "nil")
    /\ UNCHANGED <<registry, shardLock, nextSid, calls>>
    /\ UNCHANGED notLife

\* No Release leaves a handle.
HandlesLeftNever(s) == FALSE

\* The handle count of streamer s stays above zero after one more Release.
HandlesLeft(s) == st[s].refcnt > 1

\* Release / MustRelease with handles left: one handle less.
WorkerRelease(s) ==
    /\ Serving(s, {"Release", "MustRelease"})
    /\ HandlesLeft(s)
    /\ st' = [st EXCEPT ![s].refcnt = @ - 1, ![s].queue = Tail(@)]
    /\ call' = Replied(call, Head(st[s].queue).c, "nil")
    /\ UNCHANGED <<registry, shardLock, nextSid, calls>>
    /\ UNCHANGED notLife

\* Release / MustRelease of the last handle: the streamer starts draining.
WorkerLastRelease(s) ==
    /\ Serving(s, {"Release", "MustRelease"})
    /\ ~HandlesLeft(s)
    /\ st' = [st EXCEPT ![s].refcnt = 0, ![s].status = "Draining"]
    /\ UNCHANGED <<registry, shardLock, nextSid, call, calls>>
    /\ UNCHANGED notLife

\* The drained streamer becomes Terminal: what is pending fails with Closed,
\* the worker ends and takes the streamer out of its segment.
WorkerDrained(s) ==
    /\ st[s].worker = "running"
    /\ st[s].status = "Draining"
    /\ CanLock(st[s].inode)
    /\ st' = [st EXCEPT ![s].status = "Terminal", ![s].worker = "exited",
                        ![s].queue = <<>>]
    /\ registry' = Removed(s)
    /\ call' = Replied(Aborted(call, Waiters(Tail(st[s].queue))),
                       Head(st[s].queue).c, "nil")
    /\ UNCHANGED <<shardLock, nextSid, calls>>
    /\ UNCHANGED notLife

\* Evict: the streamer becomes Terminal and what is pending fails with
\* Closed; the caller goes on to signal done.
WorkerEvict(s) ==
    /\ Serving(s, {"Evict"})
    /\ st' = [st EXCEPT ![s].status = "Terminal", ![s].queue = <<>>]
    /\ call' = [Aborted(call, Waiters(Tail(st[s].queue)))
                   EXCEPT ![Head(st[s].queue).c].pc = "evict:signal"]
    /\ UNCHANGED <<registry, shardLock, nextSid, calls>>
    /\ UNCHANGED notLife

\* The done signal received: the worker ends and takes the streamer out of
\* its segment.
WorkerDone(s) ==
    /\ st[s].worker = "running"
    /\ st[s].done
    /\ CanLock(st[s].inode)
    /\ st' = [st EXCEPT ![s].worker = "exited", ![s].queue = <<>>]
    /\ registry' = Removed(s)
    /\ call' = Aborted(call, Waiters(st[s].queue))
    /\ UNCHANGED <<shardLock, nextSid, calls>>
    /\ UNCHANGED notLife

NextLife ==
    \/ \E c \in Callers, i \in Inodes : OpenLock(c, i)
    \/ \E c \in Callers : OpenLookup(c)
    \/ \E c \in Callers : OpenInsert(c)
    \/ \E c \in Callers : OpenIssue(c)
    \/ \E c \in Callers, i \in Inodes : CloseStream(c, i)
    \/ \E c \in Callers, i \in Inodes : MustCloseStream(c, i)
    \/ \E c \in Callers, i \in Inodes : EvictStream(c, i)
    \/ \E c \in Callers : LookupAbsent(c)
    \/ \E c \in Callers : LookupIssue(c)
    \/ \E c \in Callers : EvictSignal(c)
    \/ \E c \in Callers : EvictWait(c)
    \/ \E s \in Sids : WorkerOpen(s)
    \/ \E s \in Sids : WorkerRelease(s)
    \/ \E s \in Sids : WorkerLastRelease(s)
    \/ \E s \in Sids : WorkerDrained(s)
    \/ \E s \in Sids : WorkerEvict(s)
    \/ \E s \in Sids : WorkerDone(s)

(***************************************************************************)
(* The data path of the facade: Write, Truncate, Flush, Read, ExtentMerge, *)
(* FileSize and RefreshExtentsCache of extent_client.go.  What the         *)
(* streamer does with a request, GetExtents and s.read follow the          *)
(* specification (sections 4.2, 4.3); autoFlush is off.                    *)
(***************************************************************************)
\* The file a volume holds before the client starts: nothing, or one extent.
OldBytes == <<5, 5>>

EmptyFile == [keys |-> <<>>, size |-> 0, gen |-> 0]

OldFile ==
    [keys |-> <<[fo |-> 0, size |-> Len(OldBytes), eid |-> 1, eo |-> 0]>>,
     size |-> Len(OldBytes), gen |-> 1]

NoHist(size) == [init |-> size, pure |-> TRUE, writes |-> {}]

\* The inode the data calls are made on.
DataInodes == {1}

InitData ==
    /\ volNotExists \in BOOLEAN
    /\ \E old \in BOOLEAN :
          /\ store = IF old THEN <<OldBytes>> ELSE <<>>
          /\ meta = [i \in Inodes |->
                        IF old /\ i \in DataInodes THEN OldFile ELSE EmptyFile]
          /\ hist = [i \in Inodes |-> NoHist(meta[i].size)]

\* An existing volume without files.
InitNoData ==
    /\ volNotExists = FALSE
    /\ store = <<>>
    /\ meta = [i \in Inodes |-> EmptyFile]
    /\ hist = [i \in Inodes |-> NoHist(0)]

\* The byte a Write of caller c writes: one value per call.
Tag(c) == (IF c = "a" THEN 10 ELSE 20) + calls[c] + 1

\* The extent cache of streamer s as [keys, size, gen], and s with a cache.
View(s) == [keys |-> st[s].keys, size |-> st[s].fileSize, gen |-> st[s].gen]

WithView(str, f) ==
    [str EXCEPT !.keys = f.keys, !.fileSize = f.size, !.gen = f.gen]

\* GetExtents succeeded: the cache holds what the metadata service holds.
Fetched(str) == [WithView(str, meta[str.inode]) EXCEPT !.initialized = TRUE]

\* The history of inode i after a call that is no Write started, or a
\* Write failed.
Impure(i) == [hist EXCEPT ![i].pure = FALSE]

\* The history of the inode of call cl after its Write succeeded.
Written(cl) ==
    [hist EXCEPT ![cl.ino].writes = @ \cup {<<cl.off, cl.len, cl.tag>>}]

\* The first steps of a data call of caller c on inode i: the volume check
\* (where the operation has one) and GetStreamer.  rec is the call's
\* record, next the place the call goes on from with the streamer it has
\* looked up: "latch" for the calls that go through s.once.Do first.
Stopped(i, checksVol) == (checksVol /\ volNotExists) \/ registry[i] = 0

Begin(c, i, rec, checksVol, next) ==
    /\ CanStart(c)
    /\ IF checksVol /\ volNotExists THEN TRUE ELSE CanLock(i)
    /\ calls' = Started(c)
    /\ call' = [call EXCEPT ![c] =
          IF checksVol /\ volNotExists THEN [rec EXCEPT !.ret = "VolNotExists"]
          ELSE IF registry[i] = 0 THEN [rec EXCEPT !.ret = "NotOpen"]
          ELSE [rec EXCEPT !.sid = registry[i], !.pc = next]]
    /\ hist' = IF rec.op # "Write" \/ Stopped(i, checksVol) THEN Impure(i) ELSE hist
    /\ UNCHANGED <<registry, shardLock, nextSid, st>>
    /\ UNCHANGED <<volNotExists, store, meta>>
    /\ UNCHANGED notData

\* A latch that holds no caller back.
LatchFreeAlways(s) == TRUE

\* s.once.Do: while the GetExtents of another caller runs inside the latch
\* of streamer s, Do does not return.
LatchFree(s) == st[s].latch # "running"

\* s.once.Do(func() { s.GetExtents(ctx) }) on the streamer the call has
\* looked up: the first caller runs the fetch, a caller that comes while
\* it runs waits for it, a later caller goes on at once.
OnceDo(c) ==
    /\ call[c].pc = "latch"
    /\ LatchFree(call[c].sid)
    /\ call' = [call EXCEPT ![c].pc =
                    IF st[call[c].sid].latch = "new" THEN "fetch" ELSE "go"]
    /\ st' = IF st[call[c].sid].latch = "new"
             THEN [st EXCEPT ![call[c].sid].latch = "running"]
             ELSE st
    /\ UNCHANGED <<registry, shardLock, nextSid, calls>>
    /\ UNCHANGED dataVars
    /\ UNCHANGED notData

DataCall(c, i, op) == [IdleCall EXCEPT !.op = op, !.ino = i]

\* Write(inode, offset, data, direct, overWriteBuffer)
Write(c, i, off, len, owbf) ==
    Begin(c, i, [DataCall(c, i, "Write") EXCEPT !.off = off, !.len = len,
                     !.owbf = owbf, !.tag = Tag(c),
                     !.quiet = \A d \in Callers \ {c} : call[d].pc = "idle"],
          TRUE, "latch")

\* Truncate(inode, size)
Truncate(c, i, size) ==
    Begin(c, i, [DataCall(c, i, "Truncate") EXCEPT !.len = size], TRUE, "latch")

\* The caller's last call was a Write on inode i that wrote all its bytes.
JustWrote(c, i) ==
    /\ call[c].op = "Write"
    /\ call[c].ino = i
    /\ call[c].ret = "nil"
    /\ call[c].len > 0
    /\ call[c].n = call[c].len

\* The caller's last call was a Flush on inode i that succeeded, straight
\* after its Write of len bytes at off.
JustFlushed(c, i, off, len) ==
    /\ call[c].op = "Flush"
    /\ call[c].ino = i
    /\ call[c].ret = "nil"
    /\ Len(call[c].want) = 3
    /\ call[c].want[1] = off
    /\ call[c].want[2] = len

\* The size the caller's last call, a Truncate on inode i that succeeded,
\* has set: <<size>>, or <<>> after any other call.
JustTruncated(c, i) ==
    IF call[c].op = "Truncate" /\ call[c].ino = i /\ call[c].ret = "nil"
    THEN <<call[c].len>> ELSE <<>>

\* Flush(inode).  want and owbf: the Write the caller made just before, if
\* any.
Flush(c, i) ==
    Begin(c, i,
          [DataCall(c, i, "Flush") EXCEPT
              !.want = IF JustWrote(c, i)
                       THEN <<call[c].off, call[c].len, call[c].tag>> ELSE <<>>,
              !.owbf = JustWrote(c, i) /\ call[c].owbf],
          TRUE, "issue")

\* SyncWrite(inode, offset, data): the volume check and GetStreamer; no
\* latch and no request to the worker.
SyncWrite(c, i, off, len) ==
    Begin(c, i, [DataCall(c, i, "SyncWrite") EXCEPT !.off = off, !.len = len,
                     !.tag = Tag(c)],
          TRUE, "sync")

\* The data partitions writeToNewExtent may pick.
Partitions == {1, 2}

SyncWrittenInserted(str, key) ==
    [str EXCEPT !.keys = Insert(@, key),
                !.fileSize = Max(@, KeyEnd(key)), !.gen = @ + 1]

\* The streamer after writeToNewExtent wrote the extent of key: its extent
\* cache is not told.
SyncWritten(str, key) == str

\* s.writeToNewExtent(ctx, oriReq, true) and the key built from its results:
\* a new extent on partition dp holds the data, or the write fails.
SyncWriteNew(c, ok, dp) ==
    /\ call[c].pc = "sync"
    /\ LET key == [fo |-> call[c].off, size |-> call[c].len,
                   eid |-> Len(store) + 1, eo |-> 0]
       IN  IF ok
           THEN /\ store' = Append(store, Bytes(call[c].tag, call[c].len))
                /\ st' = [st EXCEPT ![call[c].sid] = SyncWritten(@, key)]
                /\ call' = [call EXCEPT ![c].pc = "idle", ![c].ret = "nil",
                               ![c].n = call[c].len, ![c].dp = dp,
                               ![c].ek = <<[pid |-> dp, eid |-> key.eid, eo |-> 0,
                                           fo |-> call[c].off,
                                           size |-> call[c].len]>>]
           ELSE /\ call' = [call EXCEPT ![c].pc = "idle", ![c].ret = "WriteFailed"]
                /\ UNCHANGED <<store, st>>
    /\ UNCHANGED <<registry, shardLock, nextSid, calls, volNotExists, meta, hist>>
    /\ UNCHANGED notData

\* SyncWriteToSpecificExtent(dp, inode, fileOffset, extentOffset, data,
\* extID): the volume check and GetStreamer; no latch and no request to the
\* worker.  n keeps extentOffset and ek the extent and its partition.
SyncWriteToSpecificExtent(c, i, dp, off, eoff, len, eid) ==
    Begin(c, i, [DataCall(c, i, "SyncWriteToSpecificExtent") EXCEPT
                     !.off = off, !.len = len, !.tag = Tag(c), !.n = eoff,
                     !.dp = dp, !.ek = <<eid>>],
          TRUE, "syncto")

\* The extent ext with bytes written at its offset eoff.
Put(ext, eoff, bytes) ==
    [j \in 1 .. Max(Len(ext), eoff + Len(bytes)) |->
        IF j > eoff /\ j <= eoff + Len(bytes) THEN bytes[j - eoff]
        ELSE IF j <= Len(ext) THEN ext[j] ELSE 0]

\* s.writeToSpecificExtent(ctx, oriReq, extID, extentOffset, dp, true): the
\* data is in the extent at extentOffset and total is its length, or the
\* write fails; the extent cache is not told.
SyncWriteSpecific(c, ok) ==
    /\ call[c].pc = "syncto"
    /\ LET eid == call[c].ek[1]
       IN  IF ok /\ eid \in DOMAIN store
           THEN /\ store' = [store EXCEPT ![eid] =
                                Put(@, call[c].n, Bytes(call[c].tag, call[c].len))]
                /\ call' = [call EXCEPT ![c].pc = "idle", ![c].ret = "nil",
                               ![c].n = call[c].len]
           ELSE /\ call' = [call EXCEPT ![c].pc = "idle", ![c].ret = "WriteFailed",
                               ![c].n = 0]
                /\ store' = store
    /\ UNCHANGED <<registry, shardLock, nextSid, st, calls, volNotExists, meta, hist>>
    /\ UNCHANGED notData

\* The extent cache of inode i, its extent list at the metadata service and
\* the extents.
FileState(i) ==
    [cache |-> IF registry[i] = 0 THEN EmptyFile ELSE View(registry[i]),
     meta |-> meta[i], ext |-> store]

\* ExtentMerge(inode): no volume check.  want: the state of the file, when
\* the caller's last call was an ExtentMerge of it that returned finish.
ExtentMerge(c, i) ==
    Begin(c, i,
          [DataCall(c, i, "ExtentMerge") EXCEPT !.finish = TRUE,
              !.mine = Opened(c),
              !.want = IF call[c].op = "ExtentMerge" /\ call[c].ino = i
                           /\ call[c].finish
                       THEN <<FileState(i)>> ELSE <<>>],
          FALSE, "latch")

\* RefreshExtentsCache(inode): no volume check.
RefreshExtentsCache(c, i) ==
    Begin(c, i, DataCall(c, i, "RefreshExtentsCache"), FALSE, "refresh")

\* Does the other callers' last call entitle a Read of off, len on inode i
\* to certain bytes: a Write of just that range that returned len, nil.
WroteRange(d, i, off, len) ==
    /\ call[d].op = "Write" /\ call[d].pc = "idle" /\ call[d].ret = "nil"
    /\ call[d].ino = i /\ call[d].off = off /\ call[d].len = len
    /\ call[d].n = len

\* if size == 0 { return }
ReturnsAtOnceNever(len) == FALSE

ReturnsAtOnce(len) == len = 0

\* Read(inode, data, offset, size): with size 0 it returns 0, false, nil
\* before anything else; else the volume check, GetStreamer and the latch.
Read(c, i, off, len) ==
    IF ReturnsAtOnce(len)
    THEN /\ CanStart(c)
         /\ calls' = Started(c)
         /\ call' = [call EXCEPT ![c] =
                [DataCall(c, i, "Read") EXCEPT !.off = off, !.len = len, !.ret = "nil"]]
         /\ hist' = Impure(i)
         /\ UNCHANGED <<registry, shardLock, nextSid, st>>
         /\ UNCHANGED <<volNotExists, store, meta>>
         /\ UNCHANGED notData
    ELSE Begin(c, i,
          [DataCall(c, i, "Read") EXCEPT !.off = off, !.len = len,
              !.want = IF \E d \in Callers \ {c} : WroteRange(d, i, off, len)
                       THEN LET d == CHOOSE d \in Callers \ {c} : WroteRange(d, i, off, len)
                            IN  Bytes(call[d].tag, len)
                       ELSE <<>>,
              !.seen = [d \in Callers |-> IF d = c THEN 0 ELSE calls[d]],
              !.quiet = \A d \in Callers \ {c} : call[d].pc = "idle",
              !.flushed = IF JustFlushed(c, i, off, len)
                          THEN Bytes(call[c].want[3], len) ELSE <<>>,
              !.owbf = JustFlushed(c, i, off, len) /\ call[c].owbf,
              !.trunc = JustTruncated(c, i)],
          TRUE, "latch")

\* FileSize(inode): s := client.GetStreamer(inode); without a streamer the
\* call returns valid = false, with one it goes on holding it.
FileSize(c, i) ==
    /\ CanStart(c)
    /\ CanLock(i)
    /\ calls' = Started(c)
    /\ call' = [call EXCEPT ![c] =
          IF registry[i] = 0
          THEN [DataCall(c, i, "FileSize") EXCEPT !.ret = "invalid",
                   !.trunc = JustTruncated(c, i)]
          ELSE [DataCall(c, i, "FileSize") EXCEPT !.sid = registry[i], !.pc = "size",
                   !.trunc = JustTruncated(c, i)]]
    /\ UNCHANGED <<registry, shardLock, nextSid, st>>
    /\ UNCHANGED dataVars
    /\ UNCHANGED notData

\* valid = true; size, gen = s.extents.Size() on the streamer FileSize has
\* looked up, as it is now, registered or not.
ExtentsSize(c) ==
    /\ call[c].pc = "size"
    /\ call' = [call EXCEPT ![c].pc = "idle", ![c].ret = "valid",
                            ![c].n = st[call[c].sid].fileSize,
                            ![c].gen = st[call[c].sid].gen]
    /\ UNCHANGED <<registry, shardLock, nextSid, st, calls>>
    /\ UNCHANGED dataVars
    /\ UNCHANGED notData

\* s.GetExtents(ctx) inside the latch succeeds.
FetchOk(c) ==
    /\ call[c].pc = "fetch"
    /\ st' = [st EXCEPT ![call[c].sid] = [Fetched(@) EXCEPT !.latch = "done"]]
    /\ call' = [call EXCEPT ![c].pc = "go"]
    /\ UNCHANGED <<registry, shardLock, nextSid, calls>>
    /\ UNCHANGED dataVars
    /\ UNCHANGED notData

\* A latch that a failed fetch leaves as it was before the first caller.
FetchFailAgain(c) ==
    /\ call[c].pc = "fetch"
    /\ st' = [st EXCEPT ![call[c].sid].latch = "new"]
    /\ call' = [call EXCEPT ![c].pc = "go"]
    /\ UNCHANGED <<registry, shardLock, nextSid, calls>>
    /\ UNCHANGED dataVars
    /\ UNCHANGED notData

\* s.GetExtents(ctx) inside the latch fails; the latch is spent all the same.
FetchFail(c) ==
    /\ call[c].pc = "fetch"
    /\ st' = [st EXCEPT ![call[c].sid].latch = "done"]
    /\ call' = [call EXCEPT ![c].pc = "go"]
    /\ UNCHANGED <<registry, shardLock, nextSid, calls>>
    /\ UNCHANGED dataVars
    /\ UNCHANGED notData

\* if !s.extents.initialized { return ErrGetExtentsFailed }
NotInitialized(c) ==
    /\ call[c].pc = "go"
    /\ ~st[call[c].sid].initialized
    /\ call' = [call EXCEPT ![c].pc = "idle", ![c].ret = "GetExtentsFailed"]
    /\ hist' = Impure(call[c].ino)
    /\ UNCHANGED <<registry, shardLock, nextSid, st, calls>>
    /\ UNCHANGED <<volNotExists, store, meta>>
    /\ UNCHANGED notData

\* The requests with the byte to write, as the overwrite buffer keeps them.
Buffered(reqs, tag) ==
    [j \in 1 .. Len(reqs) |->
        [fo |-> reqs[j].fo, size |-> reqs[j].size, key |-> reqs[j].key, tag |-> tag]]

\* A request written in place: into the extent of its key.
InPlace(ext, r, tag) ==
    WriteExtent(ext, r.key.eid, r.key.eo + (r.fo - r.key.fo), Bytes(tag, r.size))

\* The extents after the overwrite buffer was drained.
RECURSIVE Drained(_, _)
Drained(owb, ext) ==
    IF owb = <<>> THEN ext
    ELSE Drained(Tail(owb), InPlace(ext, Head(owb), Head(owb).tag))

\* A file (cache or metadata service) after a key was inserted.
InstalledSizeOfKey(f, key) ==
    [keys |-> Insert(f.keys, key), size |-> KeyEnd(key), gen |-> f.gen + 1]

Installed(f, key) ==
    [keys |-> Insert(f.keys, key), size |-> Max(f.size, KeyEnd(key)),
     gen |-> f.gen + 1]

TruncatedSizeKept(f, size) ==
    [keys |-> TruncateKeys(f.keys, size), size |-> f.size, gen |-> f.gen + 1]

\* A file after Truncate(size).
Truncated(f, size) ==
    [keys |-> TruncateKeys(f.keys, size), size |-> size, gen |-> f.gen + 1]

\* The requests of a Write served one after the other on
\* w = [cache, meta, ext]: an overwrite is written in place, or, with row,
\* to a new extent whose key is inserted; an append goes to a new extent,
\* its key is recorded at the metadata service and inserted into the cache.
RECURSIVE ApplyWrite(_, _, _, _)
ApplyWrite(reqs, w, tag, row) ==
    IF reqs = <<>> THEN w
    ELSE LET r == Head(reqs)
             key == [fo |-> r.fo, size |-> r.size, eid |-> Len(w.ext) + 1, eo |-> 0]
             w1 == IF r.over /\ ~row
                   THEN [w EXCEPT !.ext = InPlace(w.ext, r, tag)]
                   ELSE [cache |-> Installed(w.cache, key),
                         meta |-> Installed(w.meta, key),
                         ext |-> Append(w.ext, Bytes(tag, r.size))]
         IN  ApplyWrite(Tail(reqs), w1, tag, row)

\* The requests Write of caller c plans against the cache of its streamer.
Planned(c) ==
    PrepareRequests(st[call[c].sid].keys, call[c].off, call[c].off + call[c].len)

\* Write with overWriteBuffer, past the initialized check:
\* requests, _ := s.extents.PrepareRequests(offset, len(data), data) and
\* the scan of the requests for one without an ExtentKey.  With one the
\* call goes on to s.IssueWriteRequest; with none it keeps the requests to
\* append them one after the other, and returns at once when there is none.
WritePlan(c) ==
    /\ call[c].pc = "go" /\ call[c].op = "Write"
    /\ st[call[c].sid].initialized
    /\ call[c].owbf
    /\ call' = [call EXCEPT ![c] =
            IF HasAppend(Planned(c)) THEN [@ EXCEPT !.pc = "write:issue"]
            ELSE IF Planned(c) = <<>>
                 THEN [@ EXCEPT !.pc = "idle", !.ret = "nil", !.n = 0]
                 ELSE [@ EXCEPT !.pc = "write:append", !.plan = Planned(c), !.n = 0]]
    /\ hist' = IF Planned(c) = <<>> THEN Written(call[c]) ELSE hist
    /\ UNCHANGED <<registry, shardLock, nextSid, st, calls>>
    /\ UNCHANGED <<volNotExists, store, meta>>
    /\ UNCHANGED notData

\* write += s.appendOverWriteReq(req, direct) for the next request of the
\* plan: the caller appends it to the overwrite buffer of the streamer it
\* holds, as the streamer is now.  After the last request Write returns
\* (write, false, nil).
WriteAppend(c) ==
    /\ call[c].pc = "write:append"
    /\ LET r == Head(call[c].plan)
           last == Len(call[c].plan) = 1
       IN  /\ st' = [st EXCEPT ![call[c].sid].owb = @ \o Buffered(<<r>>, call[c].tag)]
           /\ call' = [call EXCEPT ![c].plan = Tail(@), ![c].n = @ + r.size,
                                   ![c].pc = IF last THEN "idle" ELSE "write:append",
                                   ![c].ret = IF last THEN "nil" ELSE @]
           /\ hist' = IF last THEN Written(call[c]) ELSE hist
    /\ UNCHANGED <<registry, shardLock, nextSid, calls>>
    /\ UNCHANGED <<volNotExists, store, meta>>
    /\ UNCHANGED notData

\* s.IssueWriteRequest(ctx, offset, data, direct, overWriteBuffer): without
\* overWriteBuffer straight after the initialized check, with it after a
\* plan with an append.  The plan is not handed over: the worker plans the
\* Write anew when it serves the request.
WriteIssue(c) ==
    /\ call[c].op = "Write"
    /\ \/ call[c].pc = "go" /\ st[call[c].sid].initialized /\ ~call[c].owbf
       \/ call[c].pc = "write:issue"
    /\ CanIssue(call[c].sid)
    /\ st' = IssueSt(c, call[c].sid, "Write")
    /\ call' = IssueCall(c, call[c].sid)
    /\ hist' = IF IssueQueues(call[c].sid) THEN hist ELSE Impure(call[c].ino)
    /\ UNCHANGED <<registry, shardLock, nextSid, calls>>
    /\ UNCHANGED <<volNotExists, store, meta>>
    /\ UNCHANGED notData

\* s.IssueTruncRequest, s.IssueExtentMergeRequest, s.IssueFlushRequest
IssueRequest(c) ==
    /\ \/ call[c].pc = "go" /\ call[c].op \in {"Truncate", "ExtentMerge"}
                            /\ st[call[c].sid].initialized
       \/ call[c].pc = "issue"
    /\ CanIssue(call[c].sid)
    /\ st' = IssueSt(c, call[c].sid, call[c].op)
    /\ call' = IssueCall(c, call[c].sid)
    /\ UNCHANGED <<registry, shardLock, nextSid, calls>>
    /\ UNCHANGED dataVars
    /\ UNCHANGED notData

\* RefreshExtentsCache: s.GetExtents(ctx) and its outcome.
RefreshFetch(c) ==
    /\ call[c].pc = "refresh"
    /\ \E ok \in BOOLEAN :
          /\ st' = IF ok THEN [st EXCEPT ![call[c].sid] = Fetched(@)] ELSE st
          /\ call' = [call EXCEPT ![c].pc = "idle",
                         ![c].ret = IF ok THEN "nil" ELSE "GetExtentsFailed"]
    /\ UNCHANGED <<registry, shardLock, nextSid, calls>>
    /\ UNCHANGED dataVars
    /\ UNCHANGED notData

\* ---- the worker of streamer s serving the data requests
Served(s) == call[Head(st[s].queue).c]

\* Write, every data write and metadata insert succeeding: buffered when
\* overWriteBuffer is set and all its requests are overwrites; else served
\* request by request.  WorkerWriteFail is the Write in which one fails.
WorkerWrite(s) ==
    /\ Serving(s, {"Write"})
    /\ LET c == Head(st[s].queue).c
           reqs == PrepareRequests(st[s].keys, Served(s).off,
                                   Served(s).off + Served(s).len)
       IN  IF Served(s).owbf /\ ~HasAppend(reqs)
           THEN /\ st' = [st EXCEPT ![s].owb = @ \o Buffered(reqs, Served(s).tag),
                                    ![s].queue = Tail(@)]
                /\ call' = Replied([call EXCEPT ![c].n = TotalSize(reqs)], c, "nil")
                /\ UNCHANGED <<store, meta>>
           ELSE \E row \in BOOLEAN :
                /\ row => \E j \in 1 .. Len(reqs) : reqs[j].over
                /\ LET w == ApplyWrite(reqs,
                                [cache |-> View(s), meta |-> meta[st[s].inode],
                                 ext |-> store], Served(s).tag, row)
                   IN  /\ st' = [st EXCEPT ![s] =
                                    [WithView(@, w.cache) EXCEPT !.queue = Tail(@)]]
                       /\ meta' = [meta EXCEPT ![st[s].inode] = w.meta]
                       /\ store' = w.ext
                       /\ call' = Replied([call EXCEPT ![c].n = TotalSize(reqs),
                                                       ![c].row = row], c, "nil")
    /\ hist' = Written(Served(s))
    /\ UNCHANGED <<registry, shardLock, nextSid, calls, volNotExists>>
    /\ UNCHANGED notData

\* The errors a Write's data write or metadata insert ends in.
WriteErrors == {"NetworkError", "MetadataError"}

\* The places of the requests of a Write: no range of a Write spans more
\* than two of them.
Places == 1 .. 2

\* Write fails at its request j, after the requests before it were served:
\* the data write fails for good (NetworkError) and leaves nothing, or, for
\* an append, the data is in its new extent and the insert of the key at
\* the metadata service fails (MetadataError): the extent stays behind
\* without a key.  The error is the reply.
WorkerWriteFail(s, j, err) ==
    /\ Serving(s, {"Write"})
    /\ LET c == Head(st[s].queue).c
           reqs == PrepareRequests(st[s].keys, Served(s).off,
                                   Served(s).off + Served(s).len)
       IN  /\ ~(Served(s).owbf /\ ~HasAppend(reqs))
           /\ j \in 1 .. Len(reqs)
           /\ err = "MetadataError" => ~reqs[j].over
           /\ LET w == ApplyWrite(SubSeq(reqs, 1, j - 1),
                                [cache |-> View(s), meta |-> meta[st[s].inode],
                                 ext |-> store], Served(s).tag, FALSE)
              IN  /\ st' = [st EXCEPT ![s] =
                               [WithView(@, w.cache) EXCEPT !.queue = Tail(@)]]
                  /\ meta' = [meta EXCEPT ![st[s].inode] = w.meta]
                  /\ store' = IF err = "MetadataError"
                              THEN Append(w.ext, Bytes(Served(s).tag, reqs[j].size))
                              ELSE w.ext
                  /\ call' = Replied([call EXCEPT
                                         ![c].n = TotalSize(SubSeq(reqs, 1, j - 1))],
                                     c, err)
    /\ hist' = Impure(st[s].inode)
    /\ UNCHANGED <<registry, shardLock, nextSid, calls, volNotExists>>
    /\ UNCHANGED notData

\* Flush: the overwrite buffer is drained.
WorkerFlush(s) ==
    /\ Serving(s, {"Flush"})
    /\ st' = [st EXCEPT ![s].owb = <<>>, ![s].queue = Tail(@)]
    /\ store' = Drained(st[s].owb, store)
    /\ call' = Replied(call, Head(st[s].queue).c, "nil")
    /\ UNCHANGED <<registry, shardLock, nextSid, calls, volNotExists, meta, hist>>
    /\ UNCHANGED notData

\* Flush fails: the buffered overwrites could not be written.
WorkerFlushFail(s) ==
    /\ Serving(s, {"Flush"})
    /\ st' = [st EXCEPT ![s].queue = Tail(@)]
    /\ call' = Replied(call, Head(st[s].queue).c, "FlushFailed")
    /\ UNCHANGED <<registry, shardLock, nextSid, calls>>
    /\ UNCHANGED dataVars
    /\ UNCHANGED notData

\* Truncate: onTruncate at the metadata service, then the cache.
WorkerTruncate(s) ==
    /\ Serving(s, {"Truncate"})
    /\ st' = [st EXCEPT ![s] =
                 [WithView(@, Truncated(View(s), Served(s).len)) EXCEPT !.queue = Tail(@)]]
    /\ meta' = [meta EXCEPT ![st[s].inode] = Truncated(@, Served(s).len)]
    /\ call' = Replied(call, Head(st[s].queue).c, "nil")
    /\ UNCHANGED <<registry, shardLock, nextSid, calls, volNotExists, store, hist>>
    /\ UNCHANGED notData

\* The keys j and j + 1 of the cache merged into one new extent.
MergedAt(w, j) ==
    LET k1 == w.cache.keys[j]
        k2 == w.cache.keys[j + 1]
        key == [fo |-> k1.fo, size |-> k1.size + k2.size,
                eid |-> Len(w.ext) + 1, eo |-> 0]
    IN  [cache |-> Installed(w.cache, key), meta |-> Installed(w.meta, key),
         ext |-> Append(w.ext, ReadRange(w.cache.keys, w.ext, k1.fo, KeyEnd(k2)))]

MergedOrRewritten(w, j) ==
    IF j = 0 THEN [w EXCEPT !.cache.gen = @ + 1] ELSE MergedAt(w, j)

\* w = [cache, meta, ext] after the merge step at j; untouched when no step
\* applies (j = 0).
Merged(w, j) == IF j = 0 THEN w ELSE MergedAt(w, j)

\* ExtentMerge: one merge step, or finish when no step applies.
WorkerMerge(s) ==
    /\ Serving(s, {"ExtentMerge"})
    /\ LET c == Head(st[s].queue).c
           j == MergeAt(st[s].keys)
           w == Merged([cache |-> View(s), meta |-> meta[st[s].inode],
                        ext |-> store], j)
       IN  /\ st' = [st EXCEPT ![s] = [WithView(@, w.cache) EXCEPT !.queue = Tail(@)]]
           /\ meta' = [meta EXCEPT ![st[s].inode] = w.meta]
           /\ store' = w.ext
           /\ call' = Replied([call EXCEPT ![c].finish = (j = 0)], c, "nil")
    /\ UNCHANGED <<registry, shardLock, nextSid, calls, volNotExists, hist>>
    /\ UNCHANGED notData

\* ---- Read
\* What an attempt of s.read can end in.
ReadOutcomes == {"ok", "ExtentNotFound", "DataIOError"}

\* The call after an attempt of s.read on streamer state str ended in out:
\* the bytes up to the file size, of the extents the cache names, with
\* hasHole where no key holds a position.  enf: where the call goes on
\* after ExtentNotFound ("idle": it returns the error).
OnNotFoundAgain(out, enf) ==
    IF out = "ExtentNotFound" THEN "read:enf" ELSE "idle"

OnNotFound(out, enf) ==
    IF out = "ExtentNotFound" THEN enf ELSE "idle"

AfterRead(cl, str, out, enf) ==
    LET end == Min(cl.off + cl.len, str.fileSize)
        logged == [cl EXCEPT !.log = Append(@, out)]
    IN  CASE out = "ok" ->
                [logged EXCEPT !.pc = "idle", !.ret = "nil",
                    !.n = Max(0, end - cl.off),
                    !.got = ReadRange(str.keys, store, cl.off, end),
                    !.hole = \E q \in cl.off .. end - 1 : ~Covered(str.keys, q)]
          [] OnNotFound(out, enf) # "idle" ->
                [logged EXCEPT !.pc = OnNotFound(out, enf)]
          [] OTHER ->
                [logged EXCEPT !.pc = "idle", !.ret = out]

\* s.UpdateExpiredExtentCache(ctx), which refetches an expired cache, and
\* the first s.read.
ReadFirst(c, out) ==
    /\ call[c].pc = "go" /\ call[c].op = "Read"
    /\ st[call[c].sid].initialized
    /\ \E refresh \in BOOLEAN :
          LET str == IF refresh THEN Fetched(st[call[c].sid]) ELSE st[call[c].sid]
          IN  /\ st' = [st EXCEPT ![call[c].sid] = str]
              /\ call' = [call EXCEPT ![c] = AfterRead(@, str, out, "read:enf")]
    /\ UNCHANGED <<registry, shardLock, nextSid, calls>>
    /\ UNCHANGED dataVars
    /\ UNCHANGED notData

\* After ExtentNotFound: if !s.extents.IsExpired(1) { return }; else
\* s.IssueFlushRequest(ctx).
ReadExpired(c) ==
    /\ call[c].pc = "read:enf"
    /\ \E expired \in BOOLEAN :
          IF expired
          THEN /\ CanIssue(call[c].sid)
               /\ st' = IssueSt(c, call[c].sid, "Flush")
               /\ call' = [IssueCall(c, call[c].sid) EXCEPT ![c].log = Append(@, "expired")]
          ELSE /\ st' = st
               /\ call' = [call EXCEPT ![c].pc = "idle", ![c].ret = "ExtentNotFound",
                                       ![c].log = Append(@, "fresh")]
    /\ UNCHANGED <<registry, shardLock, nextSid, calls>>
    /\ UNCHANGED dataVars
    /\ UNCHANGED notData

\* After the Flush: s.GetExtents(ctx); its error is returned.
ReadRefetch(c) ==
    /\ call[c].pc = "read:refetch"
    /\ \E ok \in BOOLEAN :
          IF ok
          THEN /\ st' = [st EXCEPT ![call[c].sid] = Fetched(@)]
               /\ call' = [call EXCEPT ![c].pc = "read:retry",
                                       ![c].log = Append(@, "refetch")]
          ELSE /\ st' = st
               /\ call' = [call EXCEPT ![c].pc = "idle", ![c].ret = "GetExtentsFailed"]
    /\ UNCHANGED <<registry, shardLock, nextSid, calls>>
    /\ UNCHANGED dataVars
    /\ UNCHANGED notData

\* The second s.read; whatever it ends in is returned.
ReadRetry(c, out) ==
    /\ call[c].pc = "read:retry"
    /\ call' = [call EXCEPT ![c] = AfterRead(@, st[call[c].sid], out, "idle")]
    /\ UNCHANGED <<registry, shardLock, nextSid, st, calls>>
    /\ UNCHANGED dataVars
    /\ UNCHANGED notData

\* Write, Flush and Read of one file.
NextData ==
    \/ \E c \in Callers, i \in DataInodes : OpenLock(c, i)
    \/ \E c \in Callers : OpenLookup(c)
    \/ \E c \in Callers : OpenInsert(c)
    \/ \E c \in Callers : OpenIssue(c)
    \/ \E s \in Sids : WorkerOpen(s)
    \/ \E c \in Callers, i \in DataInodes, r \in Ranges, owbf \in BOOLEAN :
           Write(c, i, r[1], r[2], owbf)
    \/ \E c \in Callers, i \in DataInodes : Flush(c, i)
    \/ \E c \in Callers, i \in DataInodes, r \in Ranges : Read(c, i, r[1], r[2])
    \/ \E c \in Callers : OnceDo(c)
    \/ \E c \in Callers : FetchOk(c)
    \/ \E c \in Callers : FetchFail(c)
    \/ \E c \in Callers : NotInitialized(c)
    \/ \E c \in Callers : WritePlan(c)
    \/ \E c \in Callers : WriteAppend(c)
    \/ \E c \in Callers : WriteIssue(c)
    \/ \E c \in Callers : IssueRequest(c)
    \/ \E c \in Callers : ReadFirst(c, "ok")
    \/ \E s \in Sids : WorkerWrite(s)
    \/ \E s \in Sids, j \in Places, err \in WriteErrors : WorkerWriteFail(s, j, err)
    \/ \E s \in Sids : WorkerFlush(s)

\* The operations that change the extent cache of one file: Write,
\* Truncate, Flush, ExtentMerge, RefreshExtentsCache; and FileSize.
NextCache ==
    \/ \E c \in Callers, i \in DataInodes : OpenLock(c, i)
    \/ \E c \in Callers : OpenLookup(c)
    \/ \E c \in Callers : OpenInsert(c)
    \/ \E c \in Callers : OpenIssue(c)
    \/ \E s \in Sids : WorkerOpen(s)
    \/ \E c \in Callers, i \in DataInodes, r \in CacheRanges, owbf \in BOOLEAN :
           Write(c, i, r[1], r[2], owbf)
    \/ \E c \in Callers, i \in DataInodes, size \in Sizes : Truncate(c, i, size)
    \/ \E c \in Callers, i \in DataInodes : Flush(c, i)
    \/ \E c \in Callers, i \in DataInodes : ExtentMerge(c, i)
    \/ \E c \in Callers, i \in DataInodes : RefreshExtentsCache(c, i)
    \/ \E c \in Callers, i \in DataInodes : FileSize(c, i)
    \/ \E c \in Callers : ExtentsSize(c)
    \/ \E c \in Callers : OnceDo(c)
    \/ \E c \in Callers : FetchOk(c)
    \/ \E c \in Callers : FetchFail(c)
    \/ \E c \in Callers : NotInitialized(c)
    \/ \E c \in Callers : WritePlan(c)
    \/ \E c \in Callers : WriteAppend(c)
    \/ \E c \in Callers : WriteIssue(c)
    \/ \E c \in Callers : IssueRequest(c)
    \/ \E c \in Callers : RefreshFetch(c)
    \/ \E s \in Sids : WorkerWrite(s)
    \/ \E s \in Sids, j \in Places, err \in WriteErrors : WorkerWriteFail(s, j, err)
    \/ \E s \in Sids : WorkerFlush(s)
    \/ \E s \in Sids : WorkerTruncate(s)
    \/ \E s \in Sids : WorkerMerge(s)

(***************************************************************************)
(* Rate limiters.                                                          *)
(*                                                                         *)
(* A limiter's limit is a rate.Limit (float64).  rate.Inf is               *)
(* math.MaxFloat64.  Every finite limit the model sets is an integer below *)
(* 2^31, which float64 holds exactly, so a finite limit is its integer.    *)
(***************************************************************************)
RateInf == [inf |-> TRUE, v |-> 0]

Limit(val) == [inf |-> FALSE, v |-> val]

RateInputs == (0 - 1) .. MaxRate

\* A string produced by fmt.Sprintf("%v", n) for an int n, or "unlimited".
\* A decimal string is the sequence of its digits, most significant first,
\* with neg set for a leading minus sign.
Unlimited == [unlimited |-> TRUE, neg |-> FALSE, digits |-> <<>>]

RECURSIVE Digits(_)
Digits(n) == IF n < 10 THEN <<n>> ELSE Append(Digits(n \div 10), n % 10)

Sprintf(n) ==
    [unlimited |-> FALSE, neg |-> n < 0,
     digits |-> IF n < 0 THEN Digits(0 - n) ELSE Digits(n)]

\* math.MaxInt64 = 9223372036854775807, as fmt.Sprintf prints it.
MaxInt64Digits == <<9, 2, 2, 3, 3, 7, 2, 0, 3, 6, 8, 5, 4, 7, 7, 5, 8, 0, 7>>

\* int(lim.Limit()) of getRate, as the pair <<is it positive, its decimal
\* string when positive>>.  For a finite limit the conversion is exact.  For
\* rate.Inf the value does not fit an int: the Go specification leaves the
\* result of such a conversion implementation-dependent.  amd64 yields
\* math.MinInt64 (negative), arm64 saturates to math.MaxInt64 (positive).
IntOfLimit(lim, sat) ==
    IF lim.inf
    THEN IF sat
         THEN [pos |-> TRUE,
               str |-> [unlimited |-> FALSE, neg |-> FALSE, digits |-> MaxInt64Digits]]
         ELSE [pos |-> FALSE, str |-> Unlimited]
    ELSE [pos |-> lim.v > 0, str |-> Sprintf(lim.v)]

\* getRate(lim)
getRate(lim, sat) ==
    LET val == IntOfLimit(lim, sat)
    IN  IF val.pos THEN val.str ELSE Unlimited

\* setRate(lim, val): the new limit, and the string returned.
setRateLimit(val) == IF val > 0 THEN Limit(val) ELSE RateInf

setRateRet(val) == IF val > 0 THEN Sprintf(val) ELSE Unlimited

\* A limiter's state after NewExtentClient, from config.ReadRate / WriteRate.
InitLimit(cfg) == IF cfg <= 0 THEN RateInf ELSE Limit(cfg)

InitOrigin(cfg) == IF cfg <= 0 THEN 0 ELSE cfg

\* An entry of one of the master's maps (map[string]uint64): the value and
\* whether the key is present.
Absent == [ok |-> FALSE, v |-> 0]

MapEntries == {Absent} \cup {[ok |-> TRUE, v |-> x] : x \in {0, MaxRate}}

\* What the master provides for a direction, as the claims word it: the
\* volume's entry, or the entry of the empty key when the volume has none;
\* zero when it has neither.
MasterProvided(vol, def) ==
    IF vol.ok THEN vol.v ELSE IF def.ok THEN def.v ELSE 0

\* The rate updateConfig settles on: the volume's entry, else the entry of
\* the empty key; the origin rate when that is missing or zero and the origin
\* rate is positive.
LookupRateDefaultFirst(vol, def) == IF def.ok THEN def ELSE vol

LookupRate(vol, def) == IF vol.ok THEN vol ELSE def

ConfigRate(vol, def, origin) ==
    LET e == LookupRate(vol, def)
    IN  IF (~e.ok \/ e.v = 0) /\ origin > 0 THEN origin ELSE e.v

ConfigLimit(rate) == IF rate > 0 THEN Limit(rate) ELSE RateInf

\* The rate maps of a limitInfo: the volume's entry and the entry of the
\* empty key, for reading and for writing.
NoRates == [vol |-> Absent, def |-> Absent, volW |-> Absent, defW |-> Absent]

\* The rate maps the master holds: every pair of entries for reading with
\* no entry for writing, and a rate of the volume for writing, with and
\* without one for reading.
LimitInfos ==
    {[NoRates EXCEPT !.vol = vol, !.def = def] :
        vol \in MapEntries, def \in MapEntries}
    \cup {[NoRates EXCEPT !.volW = [ok |-> TRUE, v |-> MaxRate], !.vol = vol] :
        vol \in {Absent, [ok |-> TRUE, v |-> MaxRate]}}

\* The rates the constructor gets: every read rate, with no write rate or
\* the highest.
Configs == RateInputs \X {0, MaxRate}

\* The history kept for the properties.  last is the caller's last call of
\* SetReadRate, SetWriteRate or GetRate: op is "setting" (the call of n in
\* direction dir has begun, with otherBefore what getRate gave for the
\* other direction then), "set" (it has returned ret), "setget" (a GetRate
\* that directly follows it has reported read and write, and the refresher
\* has set no limit since the call began) or "get" (any other GetRate);
\* mixed: the refresher has set a limit since the call began.
NoCall == [op |-> "none", dir |-> "none", n |-> 0, ret |-> Unlimited,
           otherBefore |-> Unlimited, read |-> Unlimited, write |-> Unlimited,
           mixed |-> FALSE]

\* refresh is the last updateConfig whose GetLimitInfo succeeded: op is
\* "running" or "refresh" (it has returned); mRead and
\* mWrite are the rates the master provided, usedRead and usedWrite the
\* rates last handed to the engine when updateConfig read the origin
\* rates, and touchedRead, touchedWrite tell that SetReadRate,
\* SetWriteRate has taken a step since updateConfig began.
NoRefresh == [op |-> "none", mRead |-> 0, mWrite |-> 0,
              usedRead |-> 0, usedWrite |-> 0,
              touchedRead |-> FALSE, touchedWrite |-> FALSE]

\* The caller of SetReadRate, SetWriteRate and GetRate: where it is in its
\* call, the call's direction, argument and first getRate string, and the
\* number of its calls.
NoRateCall ==
    [pc |-> "idle", dir |-> "none", n |-> 0, read |-> Unlimited, count |-> 0]

\* The caller between two calls, and at the start of its next call.
RateIdle == [NoRateCall EXCEPT !.count = rateCall.count]

RateCall == [NoRateCall EXCEPT !.count = rateCall.count + 1]

\* rateHist: the constructor's rates, the rate last handed to the engine for
\* each direction (by the constructor or by SetReadRate / SetWriteRate), the
\* caller's last call, the last updateConfig, and the rate maps of the
\* master, which stay as they are.
InitRate ==
    /\ satConv \in BOOLEAN
    /\ \E cfg \in Configs, master \in LimitInfos :
         /\ originReadRate = InitOrigin(cfg[1])
         /\ originWriteRate = InitOrigin(cfg[2])
         /\ readLimiter = InitLimit(cfg[1])
         /\ writeLimiter = InitLimit(cfg[2])
         /\ rateHist = [cfgRead |-> cfg[1], cfgWrite |-> cfg[2],
                        givenRead |-> cfg[1], givenWrite |-> cfg[2],
                        last |-> NoCall, refresh |-> NoRefresh,
                        master |-> master]
    /\ readRate = 0
    /\ writeRate = 0
    /\ rateCall = NoRateCall

\* NewExtentClient with config.ReadRate = config.WriteRate = 0, for the
\* specifications without calls of SetReadRate and SetWriteRate.
InitRateUnlimited ==
    /\ satConv = FALSE
    /\ originReadRate = 0
    /\ originWriteRate = 0
    /\ readLimiter = RateInf
    /\ writeLimiter = RateInf
    /\ rateHist = [cfgRead |-> 0, cfgWrite |-> 0, givenRead |-> 0,
                   givenWrite |-> 0, last |-> NoCall, refresh |-> NoRefresh,
                   master |-> NoRates]
    /\ readRate = 0
    /\ writeRate = 0
    /\ rateCall = NoRateCall

\* A step of SetReadRate (read TRUE) or SetWriteRate while an updateConfig
\* runs or after it has returned.
Touched(read) ==
    IF rateHist.refresh.op \notin {"running", "refresh"} THEN rateHist.refresh
    ELSE IF read THEN [rateHist.refresh EXCEPT !.touchedRead = TRUE]
    ELSE [rateHist.refresh EXCEPT !.touchedWrite = TRUE]

\* SetReadRate(val): client.originReadRate = int64(val)
SetReadRate(val) ==
    /\ rateCall.pc = "idle"
    /\ rateCall.count < MaxRateCalls
    /\ originReadRate' = val
    /\ rateCall' = [RateCall EXCEPT !.pc = "setRate", !.dir = "read", !.n = val]
    /\ rateHist' = [rateHist EXCEPT
            !.givenRead = val,
            !.refresh = Touched(TRUE),
            !.last = [NoCall EXCEPT !.op = "setting", !.dir = "read", !.n = val,
                         !.otherBefore = getRate(writeLimiter, satConv)]]
    /\ UNCHANGED <<originWriteRate, readRate, writeRate, readLimiter,
                   writeLimiter, satConv>>
    /\ UNCHANGED notRate

\* SetWriteRate(val): client.originWriteRate = int64(val)
SetWriteRate(val) ==
    /\ rateCall.pc = "idle"
    /\ rateCall.count < MaxRateCalls
    /\ originWriteRate' = val
    /\ rateCall' = [RateCall EXCEPT !.pc = "setRate", !.dir = "write", !.n = val]
    /\ rateHist' = [rateHist EXCEPT
            !.givenWrite = val,
            !.refresh = Touched(FALSE),
            !.last = [NoCall EXCEPT !.op = "setting", !.dir = "write", !.n = val,
                         !.otherBefore = getRate(readLimiter, satConv)]]
    /\ UNCHANGED <<originReadRate, readRate, writeRate, readLimiter,
                   writeLimiter, satConv>>
    /\ UNCHANGED notRate

\* return setRate(lim, val) of SetReadRate and SetWriteRate: lim.SetLimit
\* and the string returned.
setRate ==
    /\ rateCall.pc = "setRate"
    /\ IF rateCall.dir = "read"
       THEN readLimiter' = setRateLimit(rateCall.n) /\ UNCHANGED writeLimiter
       ELSE writeLimiter' = setRateLimit(rateCall.n) /\ UNCHANGED readLimiter
    /\ rateCall' = RateIdle
    /\ rateHist' = [rateHist EXCEPT
            !.refresh = Touched(rateCall.dir = "read"),
            !.last = [@ EXCEPT !.op = "set", !.ret = setRateRet(rateCall.n)]]
    /\ UNCHANGED <<originReadRate, originWriteRate, readRate, writeRate, satConv>>
    /\ UNCHANGED notRate

\* GetRate(): getRate(client.readLimiter), the first argument of Sprintf.
GetRate ==
    /\ rateCall.pc = "idle"
    /\ rateCall.count < MaxRateCalls
    /\ rateCall' = [RateCall EXCEPT !.pc = "getWrite",
                                      !.read = getRate(readLimiter, satConv)]
    /\ UNCHANGED <<originReadRate, originWriteRate, readRate, writeRate,
                   readLimiter, writeLimiter, satConv, rateHist>>
    /\ UNCHANGED notRate

\* GetRate(): getRate(client.writeLimiter), and "read: %v\nwrite: %v\n" of
\* the two strings.
GetRateWrite ==
    /\ rateCall.pc = "getWrite"
    /\ rateCall' = RateIdle
    /\ rateHist' = [rateHist EXCEPT
            !.last = [(IF @.op = "set" /\ ~@.mixed THEN @ ELSE NoCall) EXCEPT
                         !.op = IF rateHist.last.op = "set" /\ ~rateHist.last.mixed
                                THEN "setget" ELSE "get",
                         !.read = rateCall.read,
                         !.write = getRate(writeLimiter, satConv)]]
    /\ UNCHANGED <<originReadRate, originWriteRate, readRate, writeRate,
                   readLimiter, writeLimiter, satConv>>
    /\ UNCHANGED notRate

(***************************************************************************)
(* The background tasks and Close.                                         *)
(*                                                                         *)
(* NewExtentClient starts the config refresher (startUpdateConfig) and,    *)
(* when config.ExtentMerge is set, the merger (BackgroundExtentMerge);     *)
(* both are counted in client.wg and both watch client.stopC.  The merger  *)
(* and Close call the facade as the threads Merger and Closer.  Here the   *)
(* refresher's updateConfig takes its steps one by one: the rate it gives  *)
(* each limiter, the limit it sets, the merge list.                        *)
(***************************************************************************)
\* The merge-target lists the master publishes for the volume.
MergeLists == {<<>>, <<1>>}

\* The panics of the config refresher that are followed.
MaxPanics == 1

\* After NewExtentClient: stopC open, the refresher and (with extentMerge)
\* the merger waiting in their select, no merge list.
Background(em) ==
    [extentMerge |-> em, stopC |-> FALSE, refresher |-> "select",
     merger |-> IF em THEN "select" ELSE "off",
     info |-> NoRates, mergeIno |-> <<>>, pending |-> <<>>, todo |-> <<>>,
     alarms |-> 0, crashed |-> FALSE]

\* Close not called, the partition wrapper and the connection pool in use.
NotClosed ==
    [pc |-> "idle", todo |-> <<>>, log |-> <<>>,
     wrapperStopped |-> FALSE, poolClosed |-> FALSE]

InitQuiet ==
    /\ bg = Background(FALSE)
    /\ shut = NotClosed

InitBackground ==
    /\ bg \in {Background(em) : em \in BOOLEAN}
    /\ shut = NotClosed

\* A thread that called the facade goes on with its own code.
Back(c) == [call EXCEPT ![c] = IdleCall]

\* The last call of thread c was op and has returned.
Did(c, op) == call[c].op = op /\ call[c].pc = "idle"

\* ---- the config refresher: select on stopC and the ticker
RefresherStop ==
    /\ bg.refresher = "select"
    /\ bg.stopC
    /\ bg' = [bg EXCEPT !.refresher = "exited"]
    /\ UNCHANGED <<shut, setupVars, rateVars, lifeVars, dataVars>>

\* The refresher signals the merger for every list that is not empty.
MustSignalAlways(new) == Len(new) > 0

\* The refresher must signal the merger before it stores the list new.
MustSignal(new) == Len(bg.mergeIno) = 0 /\ Len(new) > 0

\* The refresher sets a limit: a Set call of the caller that has begun is
\* no longer alone with the limiters.
Mixed ==
    IF rateHist.last.op \in {"setting", "set"}
    THEN [rateHist.last EXCEPT !.mixed = TRUE]
    ELSE rateHist.last

\* updateConfig has returned.
Refreshed == [rateHist EXCEPT !.refresh.op = "refresh"]

\* A tick: updateConfig calls GetLimitInfo, which fails (ok false:
\* updateConfig returns) or gives the limitInfo with the rate maps info;
\* then readRate from the maps and client.originReadRate, and
\* client.readRate = readRate.
UpdateConfig(ok, info) ==
    /\ bg.refresher = "select"
    /\ bg' = IF ok THEN [bg EXCEPT !.refresher = "readLimit", !.info = info]
             ELSE bg
    /\ readRate' = IF ok THEN ConfigRate(info.vol, info.def, originReadRate)
                   ELSE readRate
    /\ rateHist' = IF ~ok THEN rateHist
                   ELSE [rateHist EXCEPT !.refresh =
                           [NoRefresh EXCEPT !.op = "running",
                               !.mRead = MasterProvided(info.vol, info.def),
                               !.mWrite = MasterProvided(info.volW, info.defW),
                               !.usedRead = rateHist.givenRead]]
    /\ UNCHANGED <<originReadRate, originWriteRate, writeRate,
                   readLimiter, writeLimiter, satConv, rateCall>>
    /\ UNCHANGED <<shut, setupVars, lifeVars, dataVars>>

\* client.readLimiter.SetLimit(...)
RefreshReadLimit ==
    /\ bg.refresher = "readLimit"
    /\ readLimiter' = ConfigLimit(readRate)
    /\ bg' = [bg EXCEPT !.refresher = "writeRate"]
    /\ rateHist' = [rateHist EXCEPT !.last = Mixed]
    /\ UNCHANGED <<originReadRate, originWriteRate, readRate, writeRate,
                   writeLimiter, satConv, rateCall>>
    /\ UNCHANGED <<shut, setupVars, lifeVars, dataVars>>

\* writeRate from the maps and client.originWriteRate; client.writeRate =
\* writeRate.
RefreshWriteRate ==
    /\ bg.refresher = "writeRate"
    /\ writeRate' = ConfigRate(bg.info.volW, bg.info.defW, originWriteRate)
    /\ bg' = [bg EXCEPT !.refresher = "writeLimit"]
    /\ rateHist' = [rateHist EXCEPT !.refresh.usedWrite = rateHist.givenWrite]
    /\ UNCHANGED <<originReadRate, originWriteRate, readRate,
                   readLimiter, writeLimiter, satConv, rateCall>>
    /\ UNCHANGED <<shut, setupVars, lifeVars, dataVars>>

\* client.writeLimiter.SetLimit(...); without extentMerge updateConfig
\* returns after it.
RefreshWriteLimit ==
    /\ bg.refresher = "writeLimit"
    /\ writeLimiter' = ConfigLimit(writeRate)
    /\ bg' = IF bg.extentMerge THEN [bg EXCEPT !.refresher = "merge"]
             ELSE [bg EXCEPT !.refresher = "select", !.info = NoRates]
    /\ rateHist' = [(IF bg.extentMerge THEN rateHist ELSE Refreshed)
                    EXCEPT !.last = Mixed]
    /\ UNCHANGED <<originReadRate, originWriteRate, readRate, writeRate,
                   readLimiter, satConv, rateCall>>
    /\ UNCHANGED <<shut, setupVars, lifeVars, dataVars>>

\* With extentMerge the refresher stores the merge-target list new that
\* the limitInfo holds for the volume (nothing has looked at it before),
\* after the send on extentMergeChan when the stored list is empty and
\* new is not.
RefreshMerge(new) ==
    /\ bg.refresher = "merge"
    /\ bg' = IF MustSignal(new)
             THEN [bg EXCEPT !.refresher = "send", !.pending = new]
             ELSE [bg EXCEPT !.refresher = "select", !.info = NoRates,
                             !.mergeIno = new]
    /\ rateHist' = IF MustSignal(new) THEN rateHist ELSE Refreshed
    /\ UNCHANGED <<originReadRate, originWriteRate, readRate, writeRate,
                   readLimiter, writeLimiter, satConv, rateCall>>
    /\ UNCHANGED <<shut, setupVars, lifeVars, dataVars>>

\* The send was received: client.extentMergeIno = the published list, and
\* updateConfig returns.
RefresherAssign ==
    /\ bg.refresher = "assign"
    /\ bg' = [bg EXCEPT !.refresher = "select", !.info = NoRates,
                        !.mergeIno = bg.pending, !.pending = <<>>]
    /\ rateHist' = Refreshed
    /\ UNCHANGED <<originReadRate, originWriteRate, readRate, writeRate,
                   readLimiter, writeLimiter, satConv, rateCall>>
    /\ UNCHANGED <<shut, setupVars, lifeVars, dataVars>>

\* ---- the merger: select on stopC and extentMergeChan
MergerStop ==
    /\ bg.merger = "select"
    /\ bg.stopC
    /\ bg' = [bg EXCEPT !.merger = "exited"]
    /\ UNCHANGED <<shut, setupVars, rateVars, lifeVars, dataVars>>

\* The unbuffered extentMergeChan: the refresher's send and the merger's
\* receive happen together.
MergerReceive ==
    /\ bg.merger = "select"
    /\ bg.refresher = "send"
    /\ bg' = [bg EXCEPT !.merger = "read", !.refresher = "assign"]
    /\ UNCHANGED <<shut, setupVars, rateVars, lifeVars, dataVars>>

\* The volume's directory tree: the root holds the regular file 1 and a
\* directory, which holds the regular file 2.
Dirs == {"root", "sub"}

Dentries ==
    [d \in Dirs |->
        IF d = "root"
        THEN <<[dir |-> FALSE, inode |-> 1], [dir |-> TRUE, inode |-> "sub"]>>
        ELSE <<[dir |-> FALSE, inode |-> 2]>>]

\* lookupAllInode(parent): the regular files below parent, in the order of
\* ReadDir_ll; a directory in failed, whose ReadDir_ll returns an error,
\* gives none.  LookupDentries is its loop, from the j-th dentry on.
RECURSIVE lookupAllInode(_, _), LookupDentries(_, _, _)
lookupAllInode(parent, failed) ==
    IF parent \in failed THEN <<>>
    ELSE LookupDentries(Dentries[parent], 1, failed)

LookupDentries(dentries, j, failed) ==
    IF j > Len(dentries) THEN <<>>
    ELSE (IF dentries[j].dir THEN lookupAllInode(dentries[j].inode, failed)
          ELSE <<dentries[j].inode>>)
            \o LookupDentries(dentries, j + 1, failed)

\* inodes := c.extentMergeIno, as it is when the merger reads it; the list
\* of the single inode 0 stands for every regular file of the volume.
MergerRead(failed) ==
    /\ bg.merger = "read"
    /\ LET inodes == IF Len(bg.mergeIno) = 1 /\ bg.mergeIno[1] = 0
                     THEN lookupAllInode("root", failed)
                     ELSE bg.mergeIno
       IN  bg' = [bg EXCEPT !.todo = inodes,
                            !.merger = IF inodes = <<>> THEN "select" ELSE "round"]
    /\ UNCHANGED <<shut, setupVars, rateVars, lifeVars, dataVars>>

\* The merger goes to the next inode straight after CloseStream.
InodeDoneAtClose == Did(Merger, "CloseStream")

\* The body of the loop over the inodes has ended: c.EvictStream, its last
\* statement, has returned.
InodeDone == Did(Merger, "EvictStream")

\* The round, for each inode: OpenStream, ExtentMerge until it finishes or
\* fails, CloseStream, EvictStream.
MergerOpen ==
    /\ bg.merger = "round"
    /\ call[Merger].op = "none"
    /\ OpenLock(Merger, Head(bg.todo))

MergerMerge ==
    /\ bg.merger = "round"
    /\ \/ Did(Merger, "OpenStream")
       \/ Did(Merger, "ExtentMerge") /\ call[Merger].ret = "nil" /\ ~call[Merger].finish
    /\ ExtentMerge(Merger, Head(bg.todo))

MergerClose ==
    /\ bg.merger = "round"
    /\ Did(Merger, "ExtentMerge")
    /\ call[Merger].ret # "nil" \/ call[Merger].finish
    /\ CloseStream(Merger, Head(bg.todo))

MergerEvict ==
    /\ bg.merger = "round"
    /\ Did(Merger, "CloseStream")
    /\ EvictStream(Merger, Head(bg.todo))

MergerNext ==
    /\ bg.merger = "round"
    /\ InodeDone
    /\ bg' = [bg EXCEPT !.todo = Tail(@),
                        !.merger = IF Tail(bg.todo) = <<>> THEN "select" ELSE "round"]
    /\ call' = Back(Merger)
    /\ UNCHANGED <<registry, shardLock, nextSid, st, calls>>
    /\ UNCHANGED <<shut, setupVars, rateVars, dataVars>>

\* ---- panics in the background tasks
\* updateConfig panics on a tick.  The deferred function of
\* startUpdateConfigWithRecover recovers it, reports it with handleUmpAlarm
\* and returns an error; the loop of startUpdateConfig then calls
\* startUpdateConfigWithRecover again, which waits in its select with a new
\* ticker.
RefresherPanic ==
    /\ bg.refresher = "select"
    /\ ~bg.crashed
    /\ bg.alarms < MaxPanics
    /\ bg' = [bg EXCEPT !.alarms = @ + 1]
    /\ UNCHANGED <<shut, setupVars, rateVars, lifeVars, dataVars>>

\* A panic inside BackgroundExtentMerge, raised while it handles a merge
\* signal.  The function defers c.wg.Done() only: nothing recovers the
\* panic, no alarm is reported, and the panic of a goroutine that is not
\* recovered ends the process.
MergerPanic ==
    /\ bg.merger \in {"read", "round"}
    /\ ~bg.crashed
    /\ bg' = [bg EXCEPT !.merger = "panicked", !.crashed = TRUE]
    /\ UNCHANGED <<shut, setupVars, rateVars, lifeVars, dataVars>>

\* ---- Close
\* The background tasks have ended: client.wg.Wait() returns.
TasksEnded == bg.refresher = "exited" /\ bg.merger \in {"off", "exited"}

\* streamerConcurrentMap.Keys(): the inodes with a registered streamer.
RECURSIVE SeqOf(_)
SeqOf(S) ==
    IF S = {} THEN <<>>
    ELSE LET x == CHOOSE x \in S : \A y \in S : x <= y IN <<x>> \o SeqOf(S \ {x})

Keys == SeqOf({i \in Inodes : registry[i] # 0})

Logged(e) == [shut EXCEPT !.log = Append(@, e)]

\* close(client.stopC)
Close ==
    /\ shut.pc = "idle"
    /\ bg' = [bg EXCEPT !.stopC = TRUE]
    /\ shut' = [Logged("stop") EXCEPT !.pc = "wait"]
    /\ UNCHANGED <<setupVars, rateVars, lifeVars, dataVars>>

\* client.wg.Wait()
CloseWait ==
    /\ shut.pc = "wait"
    /\ TasksEnded
    /\ shut' = [Logged("tasks") EXCEPT !.pc = "wrapper"]
    /\ UNCHANGED <<bg, setupVars, rateVars, lifeVars, dataVars>>

\* client.dataWrapper.Stop()
CloseWrapperStop ==
    /\ shut.pc = "wrapper"
    /\ shut' = [Logged("wrapper") EXCEPT !.pc = "keys", !.wrapperStopped = TRUE]
    /\ UNCHANGED <<bg, setupVars, rateVars, lifeVars, dataVars>>

\* inodes := client.streamerConcurrentMap.Keys()
CloseKeys ==
    /\ shut.pc = "keys"
    /\ shut' = [Logged("keys") EXCEPT !.pc = "loop", !.todo = Keys]
    /\ UNCHANGED <<bg, setupVars, rateVars, lifeVars, dataVars>>

\* For each inode: Flush, MustCloseStream, EvictStream, errors ignored.
CloseFlush ==
    /\ shut.pc = "loop"
    /\ shut.todo # <<>>
    /\ call[Closer].op = "none"
    /\ Flush(Closer, Head(shut.todo))

CloseMustClose ==
    /\ shut.pc = "loop"
    /\ Did(Closer, "Flush")
    /\ MustCloseStream(Closer, Head(shut.todo))

CloseEvict ==
    /\ shut.pc = "loop"
    /\ Did(Closer, "MustCloseStream")
    /\ EvictStream(Closer, Head(shut.todo))

CloseNext ==
    /\ shut.pc = "loop"
    /\ Did(Closer, "EvictStream")
    /\ shut' = [Logged("streamer") EXCEPT !.todo = Tail(@)]
    /\ call' = Back(Closer)
    /\ UNCHANGED <<registry, shardLock, nextSid, st, calls>>
    /\ UNCHANGED <<bg, setupVars, rateVars, dataVars>>

\* return nil
CloseReturn ==
    /\ shut.pc = "loop"
    /\ shut.todo = <<>>
    /\ shut' = [Logged("return") EXCEPT !.pc = "done"]
    /\ UNCHANGED <<bg, setupVars, rateVars, lifeVars, dataVars>>

\* CloseConnPool(): a method of its own, which Close does not call; the
\* owner of the client calls it, here after Close has returned.
CloseConnPool ==
    /\ shut.pc = "done"
    /\ ~shut.poolClosed
    /\ shut' = [Logged("pool") EXCEPT !.poolClosed = TRUE]
    /\ UNCHANGED <<bg, setupVars, rateVars, lifeVars, dataVars>>

\* Under SpecClose one caller opens streams, next to the client's own threads.
Users == {"a"}

\* What the master's limitInfo holds for the rates at a tick: nothing, or a
\* read rate of the volume.
TickInfos == {NoRates, [NoRates EXCEPT !.vol = [ok |-> TRUE, v |-> MaxRate]]}

NextClose ==
    \/ \E c \in Users, i \in Inodes : OpenLock(c, i)
    \/ \E c \in Threads : OpenLookup(c)
    \/ \E c \in Threads : OpenInsert(c)
    \/ \E c \in Threads : OpenIssue(c)
    \/ \E c \in Threads : LookupAbsent(c)
    \/ \E c \in Threads : LookupIssue(c)
    \/ \E c \in Threads : EvictSignal(c)
    \/ \E c \in Threads : EvictWait(c)
    \/ \E c \in Threads : OnceDo(c)
    \/ \E c \in Threads : FetchOk(c)
    \/ \E c \in Threads : FetchFail(c)
    \/ \E c \in Threads : NotInitialized(c)
    \/ \E c \in Threads : IssueRequest(c)
    \/ \E s \in Sids : WorkerOpen(s)
    \/ \E s \in Sids : WorkerRelease(s)
    \/ \E s \in Sids : WorkerLastRelease(s)
    \/ \E s \in Sids : WorkerDrained(s)
    \/ \E s \in Sids : WorkerEvict(s)
    \/ \E s \in Sids : WorkerDone(s)
    \/ \E s \in Sids : WorkerFlush(s)
    \/ \E s \in Sids : WorkerMerge(s)
    \/ RefresherStop
    \/ \E ok \in BOOLEAN, info \in TickInfos : UpdateConfig(ok, info)
    \/ RefreshReadLimit
    \/ RefreshWriteRate
    \/ RefreshWriteLimit
    \/ \E new \in MergeLists : RefreshMerge(new)
    \/ RefresherAssign
    \/ MergerStop
    \/ MergerReceive
    \/ \E failed \in SUBSET Dirs : MergerRead(failed)
    \/ MergerOpen
    \/ MergerMerge
    \/ MergerClose
    \/ MergerEvict
    \/ MergerNext
    \/ Close
    \/ CloseWait
    \/ CloseWrapperStop
    \/ CloseKeys
    \/ CloseFlush
    \/ CloseMustClose
    \/ CloseEvict
    \/ CloseNext
    \/ CloseReturn
    \/ CloseConnPool

(***************************************************************************)
(* Construction: NewExtentClient's mount loop and SetExtentSize.           *)
(*                                                                         *)
(* unit.ExtentSize and unit.MinExtentSize are in a package that is not     *)
(* part of the sources read here; their values follow the specification    *)
(* (sections 3, 6: 128 MiB and 1 MiB).                                     *)
(***************************************************************************)
MiB == 1024 * 1024

unitExtentSize == 128 * MiB

unitMinExtentSize == 1 * MiB

\* The sizes handed to SetExtentSize: -1, 0, 1, the powers of two from
\* 512 KiB to 256 MiB with their two neighbours, the sizes half way between
\* two powers of two (768 KiB, 1.5 MiB, 3 MiB, ... 192 MiB), and 200 MiB.
ExtentSizeInputs ==
    {0 - 1, 0, 1, 200 * MiB}
        \cup {2 ^ e + d : e \in 19 .. 28, d \in {0 - 1, 0, 1}}
        \cup {3 * 2 ^ e : e \in 18 .. 26}

\* a & b for a, b >= 0.
RECURSIVE BitAnd(_, _)
BitAnd(a, b) ==
    IF a = 0 \/ b = 0 THEN 0
    ELSE (a % 2) * (b % 2) + 2 * BitAnd(a \div 2, b \div 2)

\* size&(size-1) != 0
NotPowerOfTwoNever(size) == FALSE

NotPowerOfTwo(size) == BitAnd(size, size - 1) # 0

\* for i := unit.MinExtentSize; ; { if i > size { ... break }; i = i * 2 }
RECURSIVE FirstAbove(_, _)
FirstAbove(i, size) == IF i > size THEN i ELSE FirstAbove(i * 2, size)

\* The value SetExtentSize(size) leaves in client.extentSize.
CoercedExtentSize(size) ==
    IF size = 0 THEN unitExtentSize
    ELSE IF size > unitExtentSize THEN unitExtentSize
    ELSE IF size < unitMinExtentSize THEN unitMinExtentSize
    ELSE IF NotPowerOfTwo(size) THEN FirstAbove(unitMinExtentSize, size)
    ELSE size

\* MaxMountRetryLimit
MaxMountRetryLimit == 5

\* NewExtentClient entered: no wrapper yet, nothing started.  log holds the
\* outcomes of building the wrapper and the sleeps between them.
Mounting(saved) ==
    [pc |-> "new", dataState |-> saved, limit |-> 0, log |-> <<>>, tasks |-> FALSE]

\* NewExtentClient has returned a client.
Built ==
    [pc |-> "built", dataState |-> FALSE, limit |-> MaxMountRetryLimit,
     log |-> <<"ok">>, tasks |-> TRUE]

\* No directory is being listed.
NoListing == [pc |-> "off"]

InitBuilt ==
    /\ mount = Built
    /\ extentSize = unitExtentSize
    /\ sizeArg = 0
    /\ drive = NoListing

\* The background tasks before NewExtentClient starts them.
NoTasks ==
    [extentMerge |-> FALSE, stopC |-> FALSE, refresher |-> "off", merger |-> "off",
     info |-> NoRates, mergeIno |-> <<>>, pending |-> <<>>, todo |-> <<>>,
     alarms |-> 0, crashed |-> FALSE]

InitMounting ==
    /\ mount \in {Mounting(saved) : saved \in BOOLEAN}
    /\ extentSize = 0
    /\ sizeArg = 0
    /\ drive = NoListing
    /\ bg = NoTasks
    /\ shut = NotClosed

\* dataState != nil: RebuildDataPartitionWrapper, which returns no error.
MountRebuild ==
    /\ mount.pc = "new"
    /\ mount.dataState
    /\ mount' = [mount EXCEPT !.pc = "wrapper", !.log = Append(@, "rebuilt")]
    /\ UNCHANGED <<extentSize, sizeArg, drive, rateVars, lifeVars, dataVars, closeVars>>

\* limit := MaxMountRetryLimit
MountStart ==
    /\ mount.pc = "new"
    /\ ~mount.dataState
    /\ mount' = [mount EXCEPT !.pc = "retry", !.limit = MaxMountRetryLimit]
    /\ UNCHANGED <<extentSize, sizeArg, drive, rateVars, lifeVars, dataVars, closeVars>>

\* The constructor after NewDataPartitionWrapper returned a wrapper: err is
\* nil, it leaves the loop.
MountedTriesAgain(m) == [m EXCEPT !.pc = "sleep", !.log = Append(@, "ok")]

\* May NewExtentClient give up after a failed attempt?
GivesUpOneEarlier(limit) == limit <= 1

GivesUp(limit) == limit <= 0

Mounted(m) == [m EXCEPT !.pc = "wrapper", !.log = Append(@, "ok")]

\* retry: NewDataPartitionWrapper succeeds (ok) or fails; after a failure
\* the constructor gives up, or counts limit down and sleeps.
MountAttempt(ok) ==
    /\ mount.pc = "retry"
    /\ mount' =
          IF ok THEN Mounted(mount)
          ELSE IF GivesUp(mount.limit)
          THEN [mount EXCEPT !.pc = "failed", !.log = Append(@, "err")]
          ELSE [mount EXCEPT !.pc = "sleep", !.log = Append(@, "err"),
                             !.limit = @ - 1]
    /\ UNCHANGED <<extentSize, sizeArg, drive, rateVars, lifeVars, dataVars, closeVars>>

\* time.Sleep(MountRetryInterval); goto retry
MountSleep ==
    /\ mount.pc = "sleep"
    /\ mount' = [mount EXCEPT !.pc = "retry", !.log = Append(@, "sleep")]
    /\ UNCHANGED <<extentSize, sizeArg, drive, rateVars, lifeVars, dataVars, closeVars>>

\* The rest of NewExtentClient with config.ExtentSize = size and
\* config.ExtentMerge = em: the registry, SetExtentSize, the limiters, the
\* config refresher and, with em, the merger.
Construct(size, em) ==
    /\ mount.pc = "wrapper"
    /\ mount' = [mount EXCEPT !.pc = "built", !.tasks = TRUE]
    /\ extentSize' = CoercedExtentSize(size)
    /\ sizeArg' = size
    /\ bg' = Background(em)
    /\ UNCHANGED <<shut, drive, rateVars, lifeVars, dataVars>>

\* SetExtentSize(size) on the client.
SetExtentSize(size) ==
    /\ mount.pc = "built"
    /\ extentSize' = CoercedExtentSize(size)
    /\ sizeArg' = size
    /\ UNCHANGED <<mount, drive, rateVars, lifeVars, dataVars, closeVars>>

NextSetup ==
    \/ MountRebuild
    \/ MountStart
    \/ \E ok \in BOOLEAN : MountAttempt(ok)
    \/ MountSleep
    \/ \E size \in ExtentSizeInputs, em \in BOOLEAN : Construct(size, em)
    \/ \E size \in ExtentSizeInputs : SetExtentSize(size)

\* Calls of SetReadRate and SetWriteRate made in one behaviour where GetRate
\* is not called.
MaxSets == 1

\* The caller's SetReadRate and SetWriteRate next to the refresher, which
\* gets the rate maps of the master on every tick.
NextRate ==
    \/ \E val \in RateInputs : rateCall.count < MaxSets /\ SetReadRate(val)
    \/ \E val \in RateInputs : rateCall.count < MaxSets /\ SetWriteRate(val)
    \/ setRate
    \/ \E ok \in BOOLEAN : UpdateConfig(ok, rateHist.master)
    \/ RefreshReadLimit
    \/ RefreshWriteRate
    \/ RefreshWriteLimit

\* The same with GetRate.
NextGetRate ==
    \/ \E val \in RateInputs : SetReadRate(val)
    \/ \E val \in RateInputs : SetWriteRate(val)
    \/ setRate
    \/ GetRate
    \/ GetRateWrite
    \/ \E ok \in BOOLEAN : UpdateConfig(ok, rateHist.master)
    \/ RefreshReadLimit
    \/ RefreshWriteRate
    \/ RefreshWriteLimit

\* NewExtentClient, with any configured rates.
InitClientRates ==
    /\ InitRate
    /\ InitRegistry
    /\ InitNoData
    /\ InitQuiet
    /\ InitBuilt

SpecGetRate == InitClientRates /\ [][NextGetRate]_vars

\* GetRate is not called: the build makes no difference.
InitClientSets ==
    /\ InitClientRates
    /\ satConv = FALSE

SpecRate == InitClientSets /\ [][NextRate]_vars

\* NewExtentClient, with no configured rates.
InitClient ==
    /\ InitRateUnlimited
    /\ InitRegistry
    /\ InitNoData
    /\ InitQuiet
    /\ InitBuilt

SpecLife == InitClient /\ [][NextLife]_vars

\* NewExtentClient on a volume that may hold a file and may have been deleted.
InitClientData ==
    /\ InitRateUnlimited
    /\ InitRegistry
    /\ InitData
    /\ InitQuiet
    /\ InitBuilt

SpecData == InitClientData /\ [][NextData]_vars

SpecCache == InitClientData /\ [][NextCache]_vars

\* Read with every outcome of its steps, next to Flush.
NextRead ==
    \/ \E c \in Callers, i \in DataInodes : OpenLock(c, i)
    \/ \E c \in Callers : OpenLookup(c)
    \/ \E c \in Callers : OpenInsert(c)
    \/ \E c \in Callers : OpenIssue(c)
    \/ \E s \in Sids : WorkerOpen(s)
    \/ \E c \in Callers, i \in DataInodes : Flush(c, i)
    \/ \E c \in Callers, i \in DataInodes, r \in Ranges : Read(c, i, r[1], r[2])
    \/ \E c \in Callers : OnceDo(c)
    \/ \E c \in Callers : FetchOk(c)
    \/ \E c \in Callers : FetchFail(c)
    \/ \E c \in Callers : NotInitialized(c)
    \/ \E c \in Callers : IssueRequest(c)
    \/ \E c \in Callers, out \in ReadOutcomes : ReadFirst(c, out)
    \/ \E c \in Callers : ReadExpired(c)
    \/ \E c \in Callers : ReadRefetch(c)
    \/ \E c \in Callers, out \in ReadOutcomes : ReadRetry(c, out)
    \/ \E s \in Sids : WorkerFlush(s)
    \/ \E s \in Sids : WorkerFlushFail(s)

SpecRead == InitClientData /\ [][NextRead]_vars

\* Write of no bytes and Read of size 0, on inodes opened or not.
EmptyRanges == {<<0, 0>>, <<1, 0>>}

NextEmpty ==
    \/ \E c \in Callers, i \in DataInodes : OpenLock(c, i)
    \/ \E c \in Callers : OpenLookup(c)
    \/ \E c \in Callers : OpenInsert(c)
    \/ \E c \in Callers : OpenIssue(c)
    \/ \E s \in Sids : WorkerOpen(s)
    \/ \E c \in Callers, i \in DataInodes, r \in EmptyRanges, owbf \in BOOLEAN :
          Write(c, i, r[1], r[2], owbf)
    \/ \E c \in Callers, i \in DataInodes, r \in EmptyRanges : Read(c, i, r[1], r[2])
    \/ \E c \in Callers : OnceDo(c)
    \/ \E c \in Callers : FetchOk(c)
    \/ \E c \in Callers : FetchFail(c)
    \/ \E c \in Callers : NotInitialized(c)
    \/ \E c \in Callers : WritePlan(c)
    \/ \E c \in Callers : WriteIssue(c)
    \/ \E s \in Sids : WorkerWrite(s)

SpecEmpty == InitClientData /\ [][NextEmpty]_vars

\* OpenStream(1) has returned: the streamer is registered with one handle.
InitOpened ==
    /\ registry = [i \in Inodes |-> IF i \in DataInodes THEN 1 ELSE 0]
    /\ shardLock = [h \in Shards |-> "free"]
    /\ nextSid = 2
    /\ st = <<[NewStreamer(1) EXCEPT !.refcnt = 1, !.status = "Initialized"]>>
    /\ call = [c \in Threads |-> IdleCall]
    /\ calls = [c \in Callers |-> 0]

\* Two adjacent extents of one byte each, which one merge step joins.
SplitBytes == <<<<5>>, <<6>>>>

SplitFile ==
    [keys |-> <<[fo |-> 0, size |-> 1, eid |-> 1, eo |-> 0],
                [fo |-> 1, size |-> 1, eid |-> 2, eo |-> 0]>>,
     size |-> 2, gen |-> 2]

\* The volume with a new file, a file of one extent or a file of two.
InitFiles ==
    /\ volNotExists \in BOOLEAN
    /\ \E f \in {EmptyFile, OldFile, SplitFile} :
          /\ store = IF f = EmptyFile THEN <<>>
                     ELSE IF f = OldFile THEN <<OldBytes>> ELSE SplitBytes
          /\ meta = [i \in Inodes |-> IF i \in DataInodes THEN f ELSE EmptyFile]
          /\ hist = [i \in Inodes |-> NoHist(meta[i].size)]

InitClientOpened ==
    /\ InitRateUnlimited
    /\ (InitOpened \/ InitRegistry)
    /\ InitFiles
    /\ InitQuiet
    /\ InitBuilt

\* One caller's data calls on a file, opened or not.
NextOpened ==
    \/ \E c \in Users, i \in DataInodes, r \in Ranges, owbf \in BOOLEAN :
          Write(c, i, r[1], r[2], owbf)
    \/ \E c \in Users, i \in DataInodes, r \in Ranges : SyncWrite(c, i, r[1], r[2])
    \/ \E c \in Users, ok \in BOOLEAN, dp \in Partitions : SyncWriteNew(c, ok, dp)
    \/ \E c \in Users, i \in DataInodes, size \in Sizes : Truncate(c, i, size)
    \/ \E c \in Users, i \in DataInodes : Flush(c, i)
    \/ \E c \in Users, i \in DataInodes : ExtentMerge(c, i)
    \/ \E c \in Users, i \in DataInodes : FileSize(c, i)
    \/ \E c \in Users : ExtentsSize(c)
    \/ \E c \in Users, i \in DataInodes, r \in Ranges : Read(c, i, r[1], r[2])
    \/ \E c \in Users : OnceDo(c)
    \/ \E c \in Users : FetchOk(c)
    \/ \E c \in Users : FetchFail(c)
    \/ \E c \in Users : NotInitialized(c)
    \/ \E c \in Users : WritePlan(c)
    \/ \E c \in Users : WriteAppend(c)
    \/ \E c \in Users : WriteIssue(c)
    \/ \E c \in Users : IssueRequest(c)
    \/ \E c \in Users, out \in ReadOutcomes : ReadFirst(c, out)
    \/ \E c \in Users : ReadExpired(c)
    \/ \E c \in Users : ReadRefetch(c)
    \/ \E c \in Users, out \in ReadOutcomes : ReadRetry(c, out)
    \/ \E s \in Sids : WorkerWrite(s)
    \/ \E s \in Sids, j \in Places, err \in WriteErrors : WorkerWriteFail(s, j, err)
    \/ \E s \in Sids : WorkerFlush(s)
    \/ \E s \in Sids : WorkerFlushFail(s)
    \/ \E s \in Sids : WorkerTruncate(s)
    \/ \E s \in Sids : WorkerMerge(s)

SpecOpened == InitClientOpened /\ [][NextOpened]_vars

\* OpenStream(1) has returned on a file of one extent, and a Write(1,
\* offset 0, the byte 9, direct = false, overWriteBuffer = true) has
\* returned (1, false, nil): the extents are fetched and the one request of
\* the Write waits in the overwrite buffer.
InitBuffered ==
    /\ registry = [i \in Inodes |-> IF i \in DataInodes THEN 1 ELSE 0]
    /\ shardLock = [h \in Shards |-> "free"]
    /\ nextSid = 2
    /\ st = <<[Fetched([NewStreamer(1) EXCEPT !.refcnt = 1,
                                               !.status = "Initialized"])
                 EXCEPT !.latch = "done",
                        !.owb = Buffered(PrepareRequests(OldFile.keys, 0, 1), 9)]>>
    /\ call = [c \in Threads |-> IdleCall]
    /\ calls = [c \in Callers |-> 0]

InitBufferedFile ==
    /\ volNotExists = FALSE
    /\ store = <<OldBytes>>
    /\ meta = [i \in Inodes |-> IF i \in DataInodes THEN OldFile ELSE EmptyFile]
    /\ hist = [i \in Inodes |->
                  IF i \in DataInodes
                  THEN [NoHist(OldFile.size) EXCEPT !.writes = {<<0, 1, 9>>}]
                  ELSE NoHist(0)]

InitClientBuffered ==
    /\ InitRateUnlimited
    /\ InitBufferedFile
    /\ InitBuffered
    /\ InitQuiet
    /\ InitBuilt

\* One caller's Write, Flush and Read on that file.
NextBuffered ==
    \/ \E c \in Users, i \in DataInodes, r \in Ranges, owbf \in BOOLEAN :
          Write(c, i, r[1], r[2], owbf)
    \/ \E c \in Users, i \in DataInodes : Flush(c, i)
    \/ \E c \in Users, i \in DataInodes, r \in Ranges : Read(c, i, r[1], r[2])
    \/ \E c \in Users : OnceDo(c)
    \/ \E c \in Users : WritePlan(c)
    \/ \E c \in Users : WriteAppend(c)
    \/ \E c \in Users : WriteIssue(c)
    \/ \E c \in Users : IssueRequest(c)
    \/ \E c \in Users, out \in ReadOutcomes : ReadFirst(c, out)
    \/ \E c \in Users : ReadExpired(c)
    \/ \E c \in Users : ReadRefetch(c)
    \/ \E c \in Users, out \in ReadOutcomes : ReadRetry(c, out)
    \/ \E s \in Sids : WorkerWrite(s)
    \/ \E s \in Sids, j \in Places, err \in WriteErrors : WorkerWriteFail(s, j, err)
    \/ \E s \in Sids : WorkerFlush(s)
    \/ \E s \in Sids : WorkerFlushFail(s)

SpecBuffered == InitClientBuffered /\ [][NextBuffered]_vars

\* Writes and EvictStream on an open file.  A caller inside a call and the
\* worker of a streamer are goroutines that go on by themselves: as long as
\* one of them can take a step, a step is taken.
CallerStep(c) ==
    \/ OnceDo(c)
    \/ FetchOk(c)
    \/ FetchFail(c)
    \/ NotInitialized(c)
    \/ WritePlan(c)
    \/ WriteAppend(c)
    \/ WriteIssue(c)
    \/ LookupAbsent(c)
    \/ LookupIssue(c)
    \/ EvictSignal(c)
    \/ EvictWait(c)

WorkerStep(s) ==
    /\ s \in Sids
    /\ \/ WorkerWrite(s)
       \/ \E j \in Places, err \in WriteErrors : WorkerWriteFail(s, j, err)
       \/ WorkerEvict(s)
       \/ WorkerDone(s)

GoesOn ==
    \/ \E c \in Callers : CallerStep(c)
    \/ \E s \in 1 .. MaxStreamers : WorkerStep(s)

EvictRanges == {<<0, 1>>}

NextEvict ==
    \/ \E c \in Callers, i \in DataInodes, r \in EvictRanges, owbf \in BOOLEAN :
          Write(c, i, r[1], r[2], owbf)
    \/ \E c \in Callers, i \in DataInodes : EvictStream(c, i)
    \/ GoesOn

InitClientEvict ==
    /\ InitRateUnlimited
    /\ InitOpened
    /\ InitData
    /\ InitQuiet
    /\ InitBuilt

SpecEvict == InitClientEvict /\ [][NextEvict]_vars /\ WF_vars(GoesOn)

\* The state after OpenStream(1) and a first call have returned on a file
\* that is new, of one extent or of two: the extents are fetched.
InitRouteFile ==
    /\ volNotExists = FALSE
    /\ \E f \in {EmptyFile, OldFile, SplitFile} :
          /\ store = IF f = EmptyFile THEN <<>>
                     ELSE IF f = OldFile THEN <<OldBytes>> ELSE SplitBytes
          /\ meta = [i \in Inodes |-> IF i \in DataInodes THEN f ELSE EmptyFile]
          /\ hist = [i \in Inodes |-> NoHist(meta[i].size)]

InitRoute ==
    /\ registry = [i \in Inodes |-> IF i \in DataInodes THEN 1 ELSE 0]
    /\ shardLock = [h \in Shards |-> "free"]
    /\ nextSid = 2
    /\ st = <<[Fetched([NewStreamer(1) EXCEPT !.refcnt = 1,
                                               !.status = "Initialized"])
                 EXCEPT !.latch = "done"]>>
    /\ call = [c \in Threads |-> IdleCall]
    /\ calls = [c \in Callers |-> 0]

InitClientRoute ==
    /\ InitRateUnlimited
    /\ InitRouteFile
    /\ InitRoute
    /\ InitQuiet
    /\ InitBuilt

RouteRanges == {<<0, 2>>}

\* Two callers' Writes, and one caller's EvictStream, on that file.
NextRoute ==
    \/ \E c \in Callers, i \in DataInodes, r \in RouteRanges, owbf \in BOOLEAN :
          Write(c, i, r[1], r[2], owbf)
    \/ \E c \in Users, i \in DataInodes : EvictStream(c, i)
    \/ \E c \in Callers : OnceDo(c)
    \/ \E c \in Callers : WritePlan(c)
    \/ \E c \in Callers : WriteAppend(c)
    \/ \E c \in Callers : WriteIssue(c)
    \/ \E c \in Callers : LookupAbsent(c)
    \/ \E c \in Callers : LookupIssue(c)
    \/ \E c \in Callers : EvictSignal(c)
    \/ \E c \in Callers : EvictWait(c)
    \/ \E s \in Sids : WorkerWrite(s)
    \/ \E s \in Sids, j \in Places, err \in WriteErrors : WorkerWriteFail(s, j, err)
    \/ \E s \in Sids : WorkerEvict(s)
    \/ \E s \in Sids : WorkerDone(s)

SpecRoute == InitClientRoute /\ [][NextRoute]_vars

\* Every kind of request next to the calls that end a streamer: caller a
\* makes the data calls, both callers open, close and evict.
NextTerminal ==
    \/ \E c \in Callers, i \in DataInodes : OpenLock(c, i)
    \/ \E c \in Callers : OpenLookup(c)
    \/ \E c \in Callers : OpenInsert(c)
    \/ \E c \in Callers : OpenIssue(c)
    \/ \E c \in Callers, i \in DataInodes : CloseStream(c, i)
    \/ \E c \in Callers, i \in DataInodes : EvictStream(c, i)
    \/ \E c \in Callers : LookupAbsent(c)
    \/ \E c \in Callers : LookupIssue(c)
    \/ \E c \in Callers : EvictSignal(c)
    \/ \E c \in Callers : EvictWait(c)
    \/ \E c \in Users, i \in DataInodes, r \in EvictRanges : Write(c, i, r[1], r[2], FALSE)
    \/ \E c \in Users, i \in DataInodes, size \in Sizes : Truncate(c, i, size)
    \/ \E c \in Users, i \in DataInodes : Flush(c, i)
    \/ \E c \in Users, i \in DataInodes : ExtentMerge(c, i)
    \/ \E c \in Users : OnceDo(c)
    \/ \E c \in Users : FetchOk(c)
    \/ \E c \in Users : FetchFail(c)
    \/ \E c \in Users : NotInitialized(c)
    \/ \E c \in Users : WriteIssue(c)
    \/ \E c \in Users : IssueRequest(c)
    \/ \E s \in Sids : WorkerOpen(s)
    \/ \E s \in Sids : WorkerRelease(s)
    \/ \E s \in Sids : WorkerLastRelease(s)
    \/ \E s \in Sids : WorkerDrained(s)
    \/ \E s \in Sids : WorkerEvict(s)
    \/ \E s \in Sids : WorkerDone(s)
    \/ \E s \in Sids : WorkerWrite(s)
    \/ \E s \in Sids, j \in Places, err \in WriteErrors : WorkerWriteFail(s, j, err)
    \/ \E s \in Sids : WorkerFlush(s)
    \/ \E s \in Sids : WorkerTruncate(s)
    \/ \E s \in Sids : WorkerMerge(s)

SpecTerminal == InitClientEvict /\ [][NextTerminal]_vars

\* The same with MustCloseStream: all four calls that lock a segment, next
\* to the data calls and their fetch.
NextLock ==
    \/ NextTerminal
    \/ \E c \in Callers, i \in DataInodes : MustCloseStream(c, i)

SpecLock == InitClientEvict /\ [][NextLock]_vars

\* NewExtentClient with or without the merger, on a volume without files.
InitClientTasks ==
    /\ InitRateUnlimited
    /\ InitRegistry
    /\ InitNoData
    /\ InitBackground
    /\ InitBuilt

SpecClose == InitClientTasks /\ [][NextClose]_vars

\* The lists the master publishes after it has changed the merge targets.
ChangedLists == {<<2>>}

\* Two callers in Read, Write, Truncate and ExtentMerge on inode 1, which has
\* just been opened: no call has gone through the latch of its streamer.
NextLatch ==
    \/ \E c \in Callers, i \in DataInodes, r \in EvictRanges, owbf \in BOOLEAN :
          Write(c, i, r[1], r[2], owbf)
    \/ \E c \in Callers, i \in DataInodes, r \in EvictRanges : Read(c, i, r[1], r[2])
    \/ \E c \in Callers, i \in DataInodes, size \in Sizes : Truncate(c, i, size)
    \/ \E c \in Callers, i \in DataInodes : ExtentMerge(c, i)
    \/ \E c \in Callers : OnceDo(c)
    \/ \E c \in Callers : FetchOk(c)
    \/ \E c \in Callers : FetchFail(c)
    \/ \E c \in Callers : NotInitialized(c)
    \/ \E c \in Callers : WritePlan(c)
    \/ \E c \in Callers : WriteAppend(c)
    \/ \E c \in Callers : WriteIssue(c)
    \/ \E c \in Callers : IssueRequest(c)
    \/ \E c \in Callers : ReadFirst(c, "ok")
    \/ \E s \in Sids : WorkerWrite(s)
    \/ \E s \in Sids, j \in Places, err \in WriteErrors : WorkerWriteFail(s, j, err)
    \/ \E s \in Sids : WorkerTruncate(s)
    \/ \E s \in Sids : WorkerMerge(s)

SpecLatch == InitClientEvict /\ [][NextLatch]_vars

\* A volume whose file 1 has two adjacent extents, which one merge step
\* joins, and whose other files are empty.
InitSplit ==
    /\ volNotExists = FALSE
    /\ store = SplitBytes
    /\ meta = [i \in Inodes |-> IF i \in DataInodes THEN SplitFile ELSE EmptyFile]
    /\ hist = [i \in Inodes |-> NoHist(meta[i].size)]

\* NewExtentClient with config.ExtentMerge set.
InitClientMerge ==
    /\ InitRateUnlimited
    /\ InitRegistry
    /\ InitSplit
    /\ bg = Background(TRUE)
    /\ shut = NotClosed
    /\ InitBuilt

\* The merge targets the master publishes for a round over two inodes: the
\* inodes themselves, or inode 0 for every regular file of the volume.
RoundLists == {<<1, 2>>, <<0>>}

\* The merger's rounds, next to one caller that opens and evicts inode 1 and
\* to the stop signal of Close.  The ticks are followed until the refresher
\* has stored a list.
Mergers == {Merger} \cup Users

NextMerge ==
    \/ \E c \in Users, i \in DataInodes : OpenLock(c, i)
    \/ \E c \in Users, i \in DataInodes : EvictStream(c, i)
    \/ \E c \in Mergers : OpenLookup(c)
    \/ \E c \in Mergers : OpenInsert(c)
    \/ \E c \in Mergers : OpenIssue(c)
    \/ \E c \in Mergers : LookupAbsent(c)
    \/ \E c \in Mergers : LookupIssue(c)
    \/ \E c \in Mergers : EvictSignal(c)
    \/ \E c \in Mergers : EvictWait(c)
    \/ \E c \in Mergers : OnceDo(c)
    \/ \E c \in Mergers : FetchOk(c)
    \/ \E c \in Mergers : FetchFail(c)
    \/ \E c \in Mergers : NotInitialized(c)
    \/ \E c \in Mergers : IssueRequest(c)
    \/ \E s \in Sids : WorkerOpen(s)
    \/ \E s \in Sids : WorkerRelease(s)
    \/ \E s \in Sids : WorkerLastRelease(s)
    \/ \E s \in Sids : WorkerDrained(s)
    \/ \E s \in Sids : WorkerEvict(s)
    \/ \E s \in Sids : WorkerDone(s)
    \/ \E s \in Sids : WorkerMerge(s)
    \/ RefresherStop
    \/ bg.mergeIno = <<>> /\ UpdateConfig(TRUE, NoRates)
    \/ RefreshReadLimit
    \/ RefreshWriteRate
    \/ RefreshWriteLimit
    \/ \E new \in RoundLists : RefreshMerge(new)
    \/ RefresherAssign
    \/ MergerStop
    \/ MergerReceive
    \/ \E failed \in SUBSET Dirs : MergerRead(failed)
    \/ MergerOpen
    \/ MergerMerge
    \/ MergerClose
    \/ MergerEvict
    \/ MergerNext
    \/ Close

SpecMerge == InitClientMerge /\ [][NextMerge]_vars

\* The client's own threads (refresher, merger, Close) next to one caller
\* that opens inode 1, with a master that changes the merge targets.
Own == {Closer, Merger} \cup Users

NextSignal ==
    \/ \E c \in Users, i \in DataInodes : OpenLock(c, i)
    \/ \E c \in Own : OpenLookup(c)
    \/ \E c \in Own : OpenInsert(c)
    \/ \E c \in Own : OpenIssue(c)
    \/ \E c \in Own : LookupAbsent(c)
    \/ \E c \in Own : LookupIssue(c)
    \/ \E c \in Own : EvictSignal(c)
    \/ \E c \in Own : EvictWait(c)
    \/ \E c \in Own : OnceDo(c)
    \/ \E c \in Own : FetchOk(c)
    \/ \E c \in Own : FetchFail(c)
    \/ \E c \in Own : IssueRequest(c)
    \/ \E s \in Sids : WorkerOpen(s)
    \/ \E s \in Sids : WorkerRelease(s)
    \/ \E s \in Sids : WorkerLastRelease(s)
    \/ \E s \in Sids : WorkerDrained(s)
    \/ \E s \in Sids : WorkerEvict(s)
    \/ \E s \in Sids : WorkerDone(s)
    \/ \E s \in Sids : WorkerFlush(s)
    \/ \E s \in Sids : WorkerMerge(s)
    \/ RefresherStop
    \/ \E ok \in BOOLEAN : UpdateConfig(ok, NoRates)
    \/ RefreshReadLimit
    \/ RefreshWriteRate
    \/ RefreshWriteLimit
    \/ \E new \in MergeLists \cup ChangedLists : RefreshMerge(new)
    \/ RefresherAssign
    \/ MergerStop
    \/ MergerReceive
    \/ \E failed \in SUBSET Dirs : MergerRead(failed)
    \/ MergerOpen
    \/ MergerMerge
    \/ MergerClose
    \/ MergerEvict
    \/ MergerNext
    \/ Close
    \/ CloseWait
    \/ CloseWrapperStop
    \/ CloseKeys
    \/ CloseFlush
    \/ CloseMustClose
    \/ CloseEvict
    \/ CloseNext
    \/ CloseReturn

SpecSignal == InitClientTasks /\ [][NextSignal]_vars

\* The client's threads and the panics of its background tasks.  No thread
\* takes a step after a panic of the merger: the process has ended with it.
NextPanic ==
    \/ ~bg.crashed /\ NextClose
    \/ RefresherPanic
    \/ MergerPanic

SpecPanic == InitClientTasks /\ [][NextPanic]_vars

\* NewExtentClient called, with or without a saved data state.
InitNewClient ==
    /\ InitRateUnlimited
    /\ InitRegistry
    /\ InitNoData
    /\ InitMounting

SpecSetup == InitNewClient /\ [][NextSetup]_vars

(***************************************************************************)
(* Claims about the rate limiters (checked under SpecRate).                *)
(***************************************************************************)
\* The limit a refresh must leave, given what the master provided and a
\* fallback rate: the master's value if non-zero, else the fallback if
\* positive, else unlimited.
ClaimedLimit(m, fallback) ==
    IF m # 0 THEN Limit(m) ELSE IF fallback > 0 THEN Limit(fallback) ELSE RateInf

\* A refresh has returned, and SetReadRate (read TRUE) or SetWriteRate has
\* taken no step since it began.
JustRefreshed(read) ==
    /\ rateHist.refresh.op = "refresh"
    /\ ~(IF read THEN rateHist.refresh.touchedRead
         ELSE rateHist.refresh.touchedWrite)

\* C9 as stated: right after a successful config refresh each limiter's rate
\* is the master-provided value if non-zero, otherwise the rate given to the
\* constructor if positive, otherwise unlimited.
C9_RefreshUsesConstructorRate ==
    /\ JustRefreshed(TRUE) =>
          readLimiter = ClaimedLimit(rateHist.refresh.mRead, rateHist.cfgRead)
    /\ JustRefreshed(FALSE) =>
          writeLimiter = ClaimedLimit(rateHist.refresh.mWrite, rateHist.cfgWrite)

\* C9 as amended: right after a successful config refresh each limiter's
\* rate is the master-provided value if non-zero, otherwise the rate most
\* recently handed to the engine for that direction (by SetReadRate /
\* SetWriteRate, or by the constructor when there was no such call) if that
\* is positive, otherwise unlimited.  A SetReadRate / SetWriteRate that runs
\* while the refresh does is not left out: the limit the refresh sets is
\* this rate with the rate that was handed over last when the refresh read
\* it, whatever the call does before and after.
C9_RefreshUsesLastGivenRate ==
    /\ [](/\ JustRefreshed(TRUE) =>
              readLimiter = ClaimedLimit(rateHist.refresh.mRead, rateHist.givenRead)
          /\ JustRefreshed(FALSE) =>
              writeLimiter = ClaimedLimit(rateHist.refresh.mWrite, rateHist.givenWrite))
    /\ [][/\ (bg.refresher = "readLimit" /\ bg'.refresher # "readLimit") =>
              readLimiter' = ClaimedLimit(rateHist.refresh.mRead,
                                          rateHist.refresh.usedRead)
          /\ (bg.refresher = "writeLimit" /\ bg'.refresher # "writeLimit") =>
              writeLimiter' = ClaimedLimit(rateHist.refresh.mWrite,
                                           rateHist.refresh.usedWrite)]_vars

\* C9 witness: a refresh in which the master provided no read rate, after a
\* SetReadRate that replaced the constructor's rate by another positive one,
\* and in which the master provided a write rate.
C9_Witness ==
    /\ JustRefreshed(TRUE) /\ JustRefreshed(FALSE)
    /\ rateHist.refresh.mRead = 0
    /\ rateHist.givenRead > 0
    /\ rateHist.cfgRead > 0
    /\ rateHist.givenRead # rateHist.cfgRead
    /\ readLimiter = Limit(rateHist.givenRead)
    /\ rateHist.refresh.mWrite # 0
    /\ writeLimiter = Limit(rateHist.refresh.mWrite)

\* A SetReadRate ran while the refresh did, between the refresh's look at
\* the origin rate and its SetLimit: both have returned, the master
\* provided no read rate, and the read limiter is not at the rate handed
\* over last.
C9_StaleRate ==
    /\ rateHist.refresh.op = "refresh"
    /\ rateCall.pc = "idle"
    /\ rateHist.refresh.mRead = 0
    /\ rateHist.givenRead > 0
    /\ readLimiter # ClaimedLimit(0, rateHist.givenRead)

Reported(rc, dir) == IF dir = "read" THEN rc.read ELSE rc.write

OtherDir(dir) == IF dir = "read" THEN "write" ELSE "read"

SetThenGetAgrees(rc) ==
    /\ rc.n <= 0 => /\ rc.ret = Unlimited
                      /\ Reported(rc, rc.dir) = Unlimited
    /\ rc.n > 0 => /\ rc.ret = Sprintf(rc.n)
                     /\ Reported(rc, rc.dir) = Sprintf(rc.n)
    /\ Reported(rc, OtherDir(rc.dir)) = rc.otherBefore

\* C10: SetReadRate(n) (resp. SetWriteRate(n)) with n <= 0 returns
\* "unlimited" and a following GetRate reports "unlimited" for that
\* direction; with n > 0 it returns the decimal string of n and a following
\* GetRate reports n; the other direction's report is unchanged.
C10_SetThenGet ==
    rateHist.last.op = "setget" => SetThenGetAgrees(rateHist.last)

\* What C10 does hold on: a build whose out-of-range float64 -> int
\* conversion yields a negative value (amd64).
C10_SetThenGetWithoutSaturation ==
    (rateHist.last.op = "setget" /\ ~satConv) => SetThenGetAgrees(rateHist.last)


(***************************************************************************)
(* Streamer lifecycle properties (SpecLife).                               *)
(***************************************************************************)

\* The request [kind |-> k, c |-> c] is in the queue q.
RECURSIVE Queued(_, _, _)
Queued(q, k, c) ==
    IF q = <<>> THEN FALSE
    ELSE (Head(q).kind = k /\ Head(q).c = c) \/ Queued(Tail(q), k, c)

InOpenStream(c) == call[c].pc \in {"open:lookup", "open:insert", "open:issue"}

\* C1: however OpenStream calls for one inode interleave, one streamer is
\* created and registered for it: every streamer that is not Terminal is the
\* one its inode's registry entry names (a second streamer for the inode
\* exists only once the first is Terminal); a caller inside OpenStream
\* holds the shard lock from the lookup until its Open request is queued;
\* and each waiting Open request sits in the queue of the streamer of its
\* inode that the caller found or registered.
C1_OneStreamerPerInode ==
    /\ \A s \in Sids :
          st[s].status # "Terminal" => registry[st[s].inode] = s
    /\ \A c \in Callers :
          InOpenStream(c) => shardLock[ShardOf(call[c].ino)] = c
    /\ \A c \in Callers :
          (call[c].op = "OpenStream" /\ call[c].pc = "wait") =>
              /\ call[c].sid \in Sids
              /\ st[call[c].sid].inode = call[c].ino
              /\ Queued(st[call[c].sid].queue, "Open", c)

\* C1 witness: two callers are inside OpenStream of the same inode at once.
\* The Open request of the one waits in the queue of the streamer it has
\* registered; the other holds the segment's lock and has found that
\* streamer in the registry.  No second streamer has been created.
C1_Witness ==
    \E c1, c2 \in Callers :
        /\ c1 # c2
        /\ call[c1].op = "OpenStream" /\ call[c1].pc = "wait"
        /\ call[c2].op = "OpenStream" /\ call[c2].pc = "open:issue"
        /\ call[c1].ino = call[c2].ino
        /\ call[c1].sid = call[c2].sid
        /\ registry[call[c1].ino] = call[c1].sid
        /\ Queued(st[call[c1].sid].queue, "Open", c1)
        /\ Sids = {call[c1].sid}
        /\ Cardinality(Sids) = 1

\* EvictStream of caller c has returned, with a streamer found.
EvictReturned(c) ==
    /\ call[c].op = "EvictStream"
    /\ call[c].pc = "idle"
    /\ call[c].sid # 0

\* The streamer that caller c's call found is out of the registry, its
\* worker has ended, and whatever is registered for the inode is a streamer
\* constructed later.
Evicted(c) ==
    /\ st[call[c].sid].worker = "exited"
    /\ registry[call[c].ino] # call[c].sid
    /\ registry[call[c].ino] # 0 => registry[call[c].ino] > call[c].sid

\* C5 as stated: after EvictStream(inode) returns, whatever it returns, the
\* streamer it found is out of the registry and its worker has ended, and a
\* following OpenStream constructs a fresh streamer.
C5_EvictedOnReturn ==
    \A c \in Callers : EvictReturned(c) => Evicted(c)

\* C5, amended: after EvictStream(inode) returns nil, the streamer it found
\* is out of the registry and its worker has ended, and a streamer
\* registered for the inode afterwards is a fresh one.
C5_EvictedOnNilReturn ==
    \A c \in Callers :
        (EvictReturned(c) /\ call[c].ret = "nil") => Evicted(c)

\* C5 witness: EvictStream returned nil and a following OpenStream has
\* registered a fresh streamer for the inode.
C5_Witness ==
    \E c \in Callers :
        /\ EvictReturned(c)
        /\ call[c].ret = "nil"
        /\ registry[call[c].ino] > call[c].sid
        /\ st[call[c].sid].status = "Terminal"
        /\ st[registry[call[c].ino]].status = "Initialized"

(***************************************************************************)
(* Data path properties (SpecData, SpecRead).                              *)
(***************************************************************************)

\* Caller c's call of operation op has returned.
Returned(c, op) == call[c].op = op /\ call[c].pc = "idle"

\* Since caller c's call started, no other caller has been in a call.
Undisturbed(c) ==
    /\ call[c].quiet
    /\ \A d \in Callers \ {c} : calls[d] = call[c].seen[d] /\ call[d].pc = "idle"

\* C2: a Read of a range started after a Write of that range has returned
\* len, nil, with no other call in between or meanwhile, returns nil with
\* exactly the bytes written and hasHole = false, whether or not the Write
\* had overWriteBuffer set.
C2_ReadSeesCompletedWrite ==
    \A c \in Callers :
        (Returned(c, "Read") /\ call[c].want # <<>> /\ Undisturbed(c)) =>
            /\ call[c].ret = "nil"
            /\ call[c].got = call[c].want
            /\ ~call[c].hole

\* The same for a Write without overWriteBuffer: here the Read does return
\* the bytes written.
ReadSeesUnbufferedWrite ==
    \A c \in Callers :
        (/\ Returned(c, "Read") /\ call[c].want # <<>> /\ Undisturbed(c)
         /\ \A d \in Callers \ {c} : ~call[d].owbf) =>
            /\ call[c].ret = "nil"
            /\ call[c].got = call[c].want
            /\ ~call[c].hole

\* The largest offset + length of a set of ranges.
MaxEnd(W) ==
    IF W = {} THEN 0
    ELSE LET w == CHOOSE w \in W : \A v \in W : v[1] + v[2] <= w[1] + w[2]
         IN  w[1] + w[2]

\* All data calls made on inode i were Writes, they all succeeded and have
\* all returned.
OnlyWrites(i) ==
    /\ hist[i].pure
    /\ hist[i].writes # {}
    /\ registry[i] # 0
    /\ \A c \in Callers : call[c].pc = "idle"

\* Every byte of every range written is held by a key.
AllPresent(W, keys) ==
    \A w \in W : \A q \in w[1] .. w[1] + w[2] - 1 : Covered(keys, q)

\* C3 as stated: when the Writes issued on an inode, in parallel or not,
\* have all succeeded, fileSize is the largest offset + size written and
\* every range written is in the file.
C3_SizeIsMaxEnd ==
    \A i \in DataInodes :
        OnlyWrites(i) =>
            /\ st[registry[i]].fileSize = MaxEnd(hist[i].writes)
            /\ AllPresent(hist[i].writes, st[registry[i]].keys)
            /\ AllPresent(hist[i].writes, meta[i].keys)

\* C3, amended: when the Writes issued on an inode, in parallel or not,
\* have all succeeded, fileSize is the larger of the size the file had
\* before and the largest offset + size written, and every range written
\* is in the file.
C3_SizeIsMaxOfOldSizeAndEnds ==
    \A i \in DataInodes :
        OnlyWrites(i) =>
            /\ st[registry[i]].fileSize = Max(hist[i].init, MaxEnd(hist[i].writes))
            /\ AllPresent(hist[i].writes, st[registry[i]].keys)
            /\ AllPresent(hist[i].writes, meta[i].keys)

\* C3 witness: two Writes of different ranges, the second started while
\* the first was under way, have both succeeded on a file that was empty.
C3_Witness ==
    \E i \in DataInodes, c, d \in Callers :
        /\ OnlyWrites(i)
        /\ c # d
        /\ Returned(c, "Write") /\ Returned(d, "Write")
        /\ ~call[c].owbf /\ ~call[d].owbf
        /\ ~call[d].quiet
        /\ hist[i].init = 0
        /\ Cardinality(hist[i].writes) = 2
        /\ st[registry[i]].fileSize = 2

\* Keys sorted by fileOffset, none empty, none overlapping the next, and
\* the size at least the end of the last key.
WellFormed(keys, size) ==
    /\ \A j \in 1 .. Len(keys) : keys[j].size > 0
    /\ \A j \in 1 .. Len(keys) - 1 : KeyEnd(keys[j]) <= keys[j + 1].fo
    /\ size >= KeysEnd(keys)

\* C4: in every state the keys of every streamer's extent cache are sorted
\* by fileOffset and do not overlap and fileSize is at least the largest
\* fileOffset + size of a key; and no step (of Write, Truncate, Flush,
\* ExtentMerge, RefreshExtentsCache or Read's refetch) lowers the
\* generation FileSize reports.
C4_CacheWellFormed ==
    /\ [](\A s \in Sids : WellFormed(st[s].keys, st[s].fileSize))
    /\ [][\A s \in Sids : st'[s].gen >= st[s].gen]_vars

\* C4 witness: a row-on-write has replaced part of a key of the cache, which
\* now holds two keys, and the generation has moved on from the fetched one.
C4_Witness ==
    \E c \in Callers :
        /\ Returned(c, "Write") /\ call[c].ret = "nil" /\ call[c].row
        /\ Len(st[call[c].sid].keys) = 2
        /\ st[call[c].sid].keys[1].eid # st[call[c].sid].keys[2].eid
        /\ st[call[c].sid].gen > OldFile.gen

\* The operations the volume check guards, as the claim lists them.
Mutators == {"Write", "Truncate", "Flush", "ExtentMerge"}

\* No streamer has been touched by a data call: nothing fetched, nothing
\* buffered, no data request queued.
Untouched ==
    \A s \in Sids :
        /\ st[s].latch = "new"
        /\ ~st[s].initialized
        /\ st[s].owb = <<>>
        /\ \A j \in 1 .. Len(st[s].queue) : st[s].queue[j].kind = "Open"

\* C6: while the volume does not exist every mutating operation (Write,
\* Truncate, Flush, ExtentMerge) returns VolNotExists at once and leaves
\* the streamer untouched.
C6_VolNotExistsStopsMutators ==
    volNotExists =>
        /\ \A c \in Callers :
              call[c].op \in Mutators =>
                  call[c].pc = "idle" /\ call[c].ret = "VolNotExists"
        /\ Untouched

\* The same without ExtentMerge: Write, Truncate and Flush do return
\* VolNotExists at once.
VolNotExistsStopsWriteTruncateFlush ==
    volNotExists =>
        \A c \in Callers :
            call[c].op \in Mutators \ {"ExtentMerge"} =>
                call[c].pc = "idle" /\ call[c].ret = "VolNotExists"

\* What Read returns for the outcome of an attempt.
ErrorOf(out) == IF out = "ok" THEN "nil" ELSE out

\* C7 as stated: whenever the first attempt of a Read ended in
\* ExtentNotFound, the Read has gone through flush, refetch and one more
\* attempt, whose outcome it returns.
C7_AlwaysRecovers ==
    \A c \in Callers :
        (Returned(c, "Read") /\ call[c].log # <<>>
            /\ call[c].log[1] = "ExtentNotFound") =>
                /\ Len(call[c].log) = 5
                /\ SubSeq(call[c].log, 2, 4) = <<"expired", "flush", "refetch">>
                /\ call[c].ret = ErrorOf(call[c].log[5])

\* C7, amended: after a first attempt ending in ExtentNotFound, Read
\* returns that error at once when the cache is not expired; when it is,
\* Read issues a Flush and returns its error if it fails; else refetches the
\* extents and returns the error if that fails; else makes exactly one more
\* attempt and returns its outcome.
C7_RecoversWhenExpired ==
    \A c \in Callers :
        (Returned(c, "Read") /\ call[c].log # <<>>
            /\ call[c].log[1] = "ExtentNotFound") =>
                \/ /\ call[c].log = <<"ExtentNotFound", "fresh">>
                   /\ call[c].ret = "ExtentNotFound"
                \/ /\ call[c].log = <<"ExtentNotFound", "expired">>
                   /\ call[c].ret \in {"FlushFailed", "Closed"}
                \/ /\ call[c].log = <<"ExtentNotFound", "expired", "flush">>
                   /\ call[c].ret = "GetExtentsFailed"
                \/ /\ Len(call[c].log) = 5
                   /\ SubSeq(call[c].log, 1, 4) =
                          <<"ExtentNotFound", "expired", "flush", "refetch">>
                   /\ call[c].log[5] \in ReadOutcomes
                   /\ call[c].ret = ErrorOf(call[c].log[5])

\* C7 witness: a Read whose first attempt ended in ExtentNotFound went
\* through flush, refetch and a second attempt, and returned its bytes.
C7_Witness ==
    \E c \in Callers :
        /\ Returned(c, "Read")
        /\ call[c].log = <<"ExtentNotFound", "expired", "flush", "refetch", "ok">>
        /\ call[c].ret = "nil"
        /\ call[c].n > 0

(***************************************************************************)
(* Claims about Close (checked under SpecClose).                           *)
(***************************************************************************)
\* Close is working on the streamers: it is in a Flush, MustCloseStream or
\* EvictStream, or between two of them.
ProcessingStreamers == shut.pc = "loop" /\ call[Closer].op # "none"

\* The events of Close so far, without the streamers processed.
RECURSIVE Phases(_)
Phases(log) ==
    IF log = <<>> THEN <<>>
    ELSE IF Head(log) = "streamer" THEN Phases(Tail(log))
    ELSE <<Head(log)>> \o Phases(Tail(log))

\* C8: during Close the stop signal is raised, then both background tasks
\* have terminated, then every registered streamer is flushed, must-closed
\* and evicted; the partition wrapper is closed only after all streamers
\* have been processed, and the connection pool is closed last: while Close
\* works on the streamers the wrapper is still open, and when Close has
\* returned the wrapper and the connection pool are closed.
C8_CloseOrder ==
    /\ ProcessingStreamers =>
          /\ bg.stopC
          /\ TasksEnded
          /\ ~shut.wrapperStopped
    /\ shut.pc = "done" =>
          /\ shut.wrapperStopped
          /\ shut.poolClosed

\* What Close does: the stop signal, the wait for the background tasks, the
\* stop of the partition wrapper, the snapshot of the registry's keys, the
\* streamers one by one, the return; the connection pool is left to
\* CloseConnPool.
CloseOrderOfTheCode ==
    /\ \E n \in 0 .. 6 :
          Phases(shut.log) =
              SubSeq(<<"stop", "tasks", "wrapper", "keys", "return", "pool">>, 1, n)
    /\ ProcessingStreamers =>
          /\ bg.stopC
          /\ TasksEnded
          /\ shut.wrapperStopped
    /\ shut.pc = "done" /\ ~shut.poolClosed => shut.log[Len(shut.log)] = "return"

\* Close returned after it processed a streamer that a caller had opened.
CloseProcessedAStreamer ==
    /\ shut.pc = "done"
    /\ \E j \in 1 .. Len(shut.log) : shut.log[j] = "streamer"

(***************************************************************************)
(* Claims about construction (checked under SpecSetup).                    *)
(***************************************************************************)
PowersOfTwo == {2 ^ e : e \in 0 .. 28}

\* The extent size the coercion rule gives for input x.
RuleExtentSize(x) ==
    IF x = 0 THEN 128 * MiB
    ELSE IF x > 128 * MiB THEN 128 * MiB
    ELSE IF x < MiB THEN MiB
    ELSE IF x \in PowersOfTwo THEN x
    ELSE CHOOSE p \in PowersOfTwo : p > x /\ \A q \in PowersOfTwo : q > x => p <= q

\* C11: SetExtentSize(x) leaves 128 MiB for x = 0 and for x > 128 MiB,
\* 1 MiB for x < 1 MiB, x itself when it is a power of two, and else the
\* next power of two above x; the extent size is always a power of two
\* between 1 MiB and 128 MiB.
C11_ExtentSizeCoerced ==
    mount.pc = "built" =>
        /\ extentSize = RuleExtentSize(sizeArg)
        /\ extentSize \in PowersOfTwo
        /\ MiB <= extentSize /\ extentSize <= 128 * MiB

\* C11 witness: SetExtentSize(3 MiB) has left 4 MiB.
C11_Witness ==
    /\ mount.pc = "built"
    /\ sizeArg = 3 * MiB
    /\ extentSize = 4 * MiB

\* The outcomes of building the wrapper, without the sleeps.
RECURSIVE Outcomes(_)
Outcomes(log) ==
    IF log = <<>> THEN <<>>
    ELSE IF Head(log) = "sleep" THEN Outcomes(Tail(log))
    ELSE <<Head(log)>> \o Outcomes(Tail(log))

\* One sleep between two consecutive attempts, and nowhere else.
SleepsBetween(log) ==
    \A j \in 1 .. Len(log) : (log[j] = "sleep") <=> (j % 2 = 0)

\* C12 as stated: NewExtentClient without a saved data state makes at most
\* MaxMountRetryLimit attempts to build the wrapper.
C12_AtMostLimitAttempts ==
    ~mount.dataState => Len(Outcomes(mount.log)) <= MaxMountRetryLimit

\* C12, amended: it makes at most MaxMountRetryLimit + 1 attempts, the
\* first and MaxMountRetryLimit retries, with one wait of
\* MountRetryInterval between two consecutive attempts; it gives up after
\* exactly MaxMountRetryLimit + 1 failed attempts.
C12_AtMostLimitRetries ==
    ~mount.dataState =>
        /\ Len(Outcomes(mount.log)) <= MaxMountRetryLimit + 1
        /\ SleepsBetween(mount.log)
        /\ mount.pc = "failed" => Len(Outcomes(mount.log)) = MaxMountRetryLimit + 1

\* C12 witness: every attempt failed and the constructor has given up.
C12_Witness ==
    /\ mount.pc = "failed"
    /\ \A j \in 1 .. Len(mount.log) : mount.log[j] \in {"err", "sleep"}

\* C13: NewExtentClient fails exactly when every attempt to build the
\* wrapper failed; then it has started no background task and set up no
\* client; the first attempt that succeeds is the last one, and with it
\* construction goes on to the background tasks.
C13_FailsIffEveryAttemptFailed ==
    LET out == Outcomes(mount.log)
    IN  /\ mount.pc \in {"failed", "built"} =>
              ((mount.pc = "failed") <=> \A j \in 1 .. Len(out) : out[j] = "err")
        /\ mount.pc = "failed" =>
              /\ ~mount.tasks
              /\ bg = NoTasks
              /\ extentSize = 0
        /\ mount.pc \in {"wrapper", "built"} =>
              /\ out[Len(out)] \in {"ok", "rebuilt"}
              /\ \A j \in 1 .. Len(out) - 1 : out[j] = "err"
        /\ mount.pc = "built" =>
              /\ mount.tasks
              /\ bg.refresher # "off"

\* C13 witness: an attempt failed, the next one succeeded, and the client
\* is built with its background tasks started.
C13_Witness ==
    /\ mount.pc = "built"
    /\ Outcomes(mount.log) = <<"err", "ok">>
    /\ bg.refresher = "select"
    /\ bg.merger = "select"

(***************************************************************************)
(* Claims about empty calls (checked under SpecEmpty).                     *)
(***************************************************************************)
\* C14: a Write of an empty byte slice returns (0, false, nil) at once, on
\* every inode and with every flag, and leaves the streamers as they are:
\* nothing is fetched, nothing is queued, nothing is buffered.
C14_EmptyWriteIsNoOp ==
    /\ \A c \in Callers :
          (call[c].op = "Write" /\ call[c].len = 0) =>
              /\ call[c].pc = "idle"
              /\ call[c].ret = "nil"
              /\ call[c].n = 0 /\ ~call[c].row
    /\ (\A c \in Callers : call[c].op \in {"none", "OpenStream", "Write"}) =>
          \A s \in Sids :
              /\ st[s].latch = "new"
              /\ ~st[s].initialized
              /\ st[s].owb = <<>>
              /\ \A j \in 1 .. Len(st[s].queue) : st[s].queue[j].kind = "Open"

\* What does hold: an empty Write that returns nil returns (0, false), and
\* no empty Write changes the keys, the size, the generation or the
\* overwrite buffer of a cache that has been fetched.
EmptyWriteWritesNothing ==
    /\ [](\A c \in Callers :
            (Returned(c, "Write") /\ call[c].len = 0 /\ call[c].ret = "nil") =>
                call[c].n = 0 /\ ~call[c].row)
    /\ [][\A s \in Sids :
            (s \in DOMAIN st' /\ st[s].initialized) =>
                /\ st'[s].keys = st[s].keys
                /\ st'[s].fileSize = st[s].fileSize
                /\ st'[s].gen = st[s].gen
                /\ st'[s].owb = st[s].owb]_vars

\* C15: a Read of size 0 returns (0, false, nil) in the step it is called,
\* whatever the state (stream opened or not, volume existing or not,
\* extents fetched or not), and that step changes no streamer and nothing
\* of the registry, the metadata service or the extents.
C15_EmptyReadTouchesNothing ==
    [][\A c \in Callers :
          (call'[c] # call[c] /\ call'[c].op = "Read" /\ call'[c].len = 0) =>
              /\ call'[c].pc = "idle"
              /\ call'[c].ret = "nil"
              /\ call'[c].n = 0 /\ ~call'[c].hole /\ call'[c].got = <<>>
              /\ call'[c].log = <<>>
              /\ UNCHANGED <<registry, shardLock, st, store, meta>>]_vars

\* C15 witness: a Read of size 0 has returned nil on an inode that is not
\* open, in a volume that does not exist.
C15_Witness ==
    \E c \in Callers :
        /\ Returned(c, "Read") /\ call[c].len = 0
        /\ call[c].ret = "nil"
        /\ registry[call[c].ino] = 0
        /\ volNotExists

\* The bytes a Read of len bytes at off gets from the extent cache of inode i
\* and the extents.
FileBytes(i, off, len) ==
    LET str == st[registry[i]]
    IN  ReadRange(str.keys, store, off, Min(off + len, str.fileSize))

\* C16: on an opened inode, a Read(offset, len(bytes)) that succeeds straight
\* after the caller's successful Write(offset, bytes) and the successful
\* Flush that followed it, with no other caller at work, returns all the
\* bytes written and no hole.
C16_WriteFlushRead ==
    \A c \in Callers :
        ( /\ Returned(c, "Read") /\ call[c].ret = "nil"
          /\ call[c].flushed # <<>>
          /\ \A d \in Callers \ {c} : calls[d] = 0 )
        => /\ call[c].n = call[c].len
           /\ call[c].got = call[c].flushed
           /\ ~call[c].hole

\* The Read of C16 has returned other bytes than the Write before the Flush
\* had written.
WriteFlushReadDiffers ==
    \E c \in Callers :
        /\ Returned(c, "Read") /\ call[c].ret = "nil"
        /\ call[c].flushed # <<>>
        /\ call[c].n = call[c].len
        /\ call[c].got # call[c].flushed

\* The same when the Write was the first call on the file: no overwrite was
\* waiting in the overwrite buffer when it was made.
WriteFlushReadFromStart ==
    \A c \in Callers :
        ( /\ Returned(c, "Read") /\ call[c].ret = "nil"
          /\ call[c].flushed # <<>>
          /\ calls[c] = 3
          /\ \A d \in Callers \ {c} : calls[d] = 0 )
        => /\ call[c].n = call[c].len
           /\ call[c].got = call[c].flushed
           /\ ~call[c].hole

\* A Write through the overwrite buffer over the old bytes of a file, a Flush
\* and a Read that gave back the new bytes.
WriteFlushReadDone ==
    \E c \in Callers :
        /\ Returned(c, "Read")
        /\ call[c].ret = "nil"
        /\ call[c].flushed # <<>>
        /\ call[c].got = call[c].flushed
        /\ call[c].owbf
        /\ hist[call[c].ino].init >= call[c].off + call[c].len
        /\ \E w \in hist[call[c].ino].writes : w[3] = call[c].flushed[1]

\* C17: after a successful Truncate(inode, S), with no other caller at work,
\* the cache holds size S and no key that extends past S; a FileSize that
\* follows returns S with valid = true, and a successful Read that follows at
\* an offset >= S returns 0 bytes.
C17_TruncateThenSizeAndRead ==
    \A c \in Callers :
        (\A d \in Callers \ {c} : calls[d] = 0) =>
            /\ (Returned(c, "Truncate") /\ call[c].ret = "nil") =>
                   /\ st[call[c].sid].fileSize = call[c].len
                   /\ \A j \in DOMAIN st[call[c].sid].keys :
                          KeyEnd(st[call[c].sid].keys[j]) <= call[c].len
            /\ (Returned(c, "FileSize") /\ call[c].trunc # <<>>) =>
                   /\ call[c].ret = "valid"
                   /\ call[c].n = call[c].trunc[1]
            /\ ( /\ Returned(c, "Read") /\ call[c].ret = "nil"
                 /\ call[c].trunc # <<>>
                 /\ call[c].off >= call[c].trunc[1] ) =>
                   /\ call[c].n = 0
                   /\ call[c].got = <<>>

\* A file with two old bytes was truncated to one byte, and the Read of the
\* second byte that followed returned nothing.
C17_Witness ==
    \E c \in Callers :
        /\ Returned(c, "Read") /\ call[c].ret = "nil"
        /\ call[c].trunc = <<1>>
        /\ call[c].off = 1
        /\ call[c].n = 0
        /\ hist[call[c].ino].init = Len(OldBytes)
        /\ store = <<OldBytes>>
        /\ Len(st[call[c].sid].keys) = 1

\* C18: once ExtentMerge(inode) has returned finish = true, the caller's next
\* ExtentMerge of the inode, with no other call between and no other caller at
\* work, changes neither the extent cache (keys, fileSize, generation) nor the
\* extent list at the metadata service nor the extents while it runs, and
\* returns finish = true.
C18_MergeIdempotent ==
    \A c \in Callers :
        ( /\ call[c].op = "ExtentMerge"
          /\ call[c].want # <<>>
          /\ \A d \in Callers \ {c} : calls[d] = 0 )
        => /\ FileState(call[c].ino) = call[c].want[1]
           /\ call[c].pc = "idle" => call[c].finish

\* A merge step joined the two extents of a file, the next ExtentMerge
\* returned finish = true, and so did the one after it.
C18_Witness ==
    \E c \in Callers :
        /\ Returned(c, "ExtentMerge")
        /\ call[c].ret = "nil"
        /\ call[c].want # <<>>
        /\ call[c].finish
        /\ Len(store) = Len(SplitBytes) + 1
        /\ Len(st[call[c].sid].keys) = 1

\* C19: no step of a SyncWrite changes the streamer's extent cache (keys,
\* fileSize, generation), whether the call succeeds or fails; on success the
\* key it returns names the partition written, a new extent, extent offset 0,
\* the file offset of the call and the size of the data.
SyncWriteStep(c) ==
    \/ call[c].pc = "idle" /\ call'[c].op = "SyncWrite" /\ calls'[c] = calls[c] + 1
    \/ call[c].pc = "sync" /\ call'[c].pc = "idle"

C19_SyncWriteLeavesCache ==
    [][\A c \in Callers : SyncWriteStep(c) =>
          /\ registry' = registry
          /\ \A s \in DOMAIN st :
                /\ st'[s].keys = st[s].keys
                /\ st'[s].fileSize = st[s].fileSize
                /\ st'[s].gen = st[s].gen
          /\ (call'[c].pc = "idle" /\ call'[c].ret = "nil") =>
                /\ Len(store') = Len(store) + 1
                /\ store'[Len(store')] = Bytes(call[c].tag, call[c].len)
                /\ call'[c].ek = <<[pid |-> call'[c].dp, eid |-> Len(store'),
                                    eo |-> 0, fo |-> call[c].off,
                                    size |-> call[c].len]>>
          /\ (call'[c].pc = "idle" /\ call'[c].ret # "nil") => call'[c].ek = <<>>]_vars

\* A SyncWrite on a file with old bytes returned the key of a new extent that
\* the extent cache does not hold.
C19_Witness ==
    \E c \in Callers :
        /\ Returned(c, "SyncWrite")
        /\ call[c].ret = "nil"
        /\ call[c].ek # <<>>
        /\ st[call[c].sid].initialized
        /\ st[call[c].sid].keys # <<>>
        /\ \A j \in DOMAIN st[call[c].sid].keys :
               st[call[c].sid].keys[j].eid # call[c].ek[1].eid

\* A Write of caller c that has passed the initialized check: it is about to
\* hand its request to the streamer, or waits for the reply.
Outstanding(c) ==
    /\ call[c].op = "Write"
    /\ call[c].pc \in {"go", "write:append", "write:issue", "wait"}
    /\ st[call[c].sid].initialized

\* Caller d is inside EvictStream(i).
Evicting(d, i) ==
    call[d].op = "EvictStream" /\ call[d].ino = i /\ call[d].pc # "idle"

\* The Write of caller c ends in this step.
WriteEnds(c) == Outstanding(c) /\ call'[c].pc = "idle"

\* A state follows every state in which EvictStream(inode) is under way on
\* a registered streamer: no Write on the inode is outstanding any more, the
\* streamer has left the registry and its worker has ended.
EvictionEnds ==
    \A i \in DataInodes :
        (registry[i] # 0 /\ \E d \in Callers : Evicting(d, i))
        ~> ( /\ \A c \in Callers : ~(Outstanding(c) /\ call[c].ino = i)
             /\ registry[i] = 0
             /\ \A s \in Sids : st[s].inode = i => st[s].worker = "exited" )

WriteWaitsInSendAtEviction ==
    \E c \in Callers, d \in Callers :
        /\ call[c].op = "Write"
        /\ call[c].pc = "write:issue" \/ (call[c].pc = "go" /\ ~call[c].owbf)
        /\ st[call[c].sid].initialized
        /\ ~CanIssue(call[c].sid)
        /\ call[d].op = "EvictStream" /\ call[d].pc = "wait"
        /\ Head(st[call[c].sid].queue) = [kind |-> "Evict", c |-> d]

\* A Write that was outstanding while EvictStream was under way has ended
\* with the error of its data write.
WriteFailedAtEviction ==
    \E c \in Callers, d \in Callers :
        /\ Returned(c, "Write") /\ call[c].ret \in WriteErrors
        /\ Evicting(d, call[c].ino)

\* The place of a lifecycle state in the order Fresh, Initialized, Draining,
\* Terminal.
Rank(status) ==
    CASE status = "Fresh" -> 0
      [] status = "Initialized" -> 1
      [] status = "Draining" -> 2
      [] status = "Terminal" -> 3

\* Caller c is about to hand a request to a streamer, and the streamer.
Enqueues(c) ==
    \/ call[c].pc = "open:issue"
    \/ call[c].pc = "lookup" /\ registry[call[c].ino] # 0
    \/ call[c].pc = "issue"
    \/ call[c].pc = "write:issue"
    \/ /\ call[c].pc = "go"
       /\ st[call[c].sid].initialized
       /\ IF call[c].op = "Write" THEN ~call[c].owbf
          ELSE call[c].op \in {"Truncate", "ExtentMerge"}

Target(c) == IF call[c].pc = "lookup" THEN registry[call[c].ino] ELSE call[c].sid

\* C21: the lifecycle state of a streamer never moves backward in the order
\* Fresh, Initialized, Draining, Terminal; a request handed to a Terminal
\* streamer (Open, Write, Flush, Truncate, Release, Evict, ExtentMerge) is
\* not queued and fails with Closed, so that nothing waits on a Terminal
\* streamer.
C21_ForwardAndClosed ==
    /\ [][ /\ \A s \in DOMAIN st : Rank(st'[s].status) >= Rank(st[s].status)
           /\ \A c \in Callers :
                 ( /\ Enqueues(c)
                   /\ call'[c] # call[c]
                   /\ st[Target(c)].status = "Terminal" )
                 => /\ call'[c].pc = "idle"
                    /\ call'[c].ret = "Closed"
                    /\ st'[Target(c)].queue = st[Target(c)].queue ]_vars
    /\ [](\A s \in Sids : st[s].status = "Terminal" => st[s].queue = <<>>)
    /\ [](\A c \in Callers :
            call[c].pc = "wait" => st[call[c].sid].status # "Terminal")

\* A Truncate was refused with Closed by the streamer that another caller's
\* EvictStream had made Terminal.
C21_Witness ==
    \E c \in Callers, d \in Callers :
        /\ Returned(c, "Truncate") /\ call[c].ret = "Closed" /\ call[c].refused
        /\ call[d].op = "EvictStream" /\ call[d].sid = call[c].sid
        /\ st[call[c].sid].status = "Terminal"

\* C22: a panic inside a background task (the config refresher or the
\* background merger) is caught, reported as an alarm, and the task goes on:
\* no panic of a background task ends the engine or stops the task for good.
C22_PanicsCaught ==
    /\ ~bg.crashed
    /\ bg.merger # "panicked"

\* The refresher's part: its panic is reported and it waits in its select
\* again, with the merge list and the merger as before.
RefresherPanicRecovered ==
    [][bg'.alarms > bg.alarms
        => /\ bg'.refresher = "select"
           /\ ~bg'.crashed
           /\ bg'.mergeIno = bg.mergeIno
           /\ bg'.merger = bg.merger]_vars

\* C23 as stated: with extentMerge enabled, every successful config refresh
\* in which the master publishes a merge-target list that is not empty raises
\* the merge signal: a list that is not empty is stored only after the send
\* on extentMergeChan was received.
C23_EveryListSignals ==
    [][(bg'.mergeIno # bg.mergeIno /\ bg'.mergeIno # <<>>)
        => bg.refresher = "assign"]_vars

\* C23, restated: with extentMerge enabled, a successful config refresh in
\* which the master publishes a merge-target list that is not empty raises
\* the merge signal exactly when the list the client has stored is empty; the
\* list is then stored after the merger received the signal.  With a stored
\* list that is not empty the new list is stored without a signal.
C23_SignalOnFirstList ==
    /\ [][ /\ (bg.refresher = "merge" /\ bg'.refresher \notin {"merge", "select"})
                => /\ bg.extentMerge
                   /\ bg'.refresher = "send"
                   /\ bg.mergeIno = <<>>
                   /\ bg'.pending # <<>>
                   /\ bg'.mergeIno = bg.mergeIno
           /\ (bg.refresher = "merge" /\ bg'.refresher = "select")
                => bg.mergeIno # <<>> \/ bg'.mergeIno = <<>>
           /\ (bg'.mergeIno # bg.mergeIno /\ bg'.mergeIno # <<>>)
                => /\ bg.extentMerge
                   /\ bg.refresher = "assign" <=> bg.mergeIno = <<>>
                   /\ bg.refresher \in {"assign", "merge"}
                   /\ bg.refresher = "assign" => bg'.mergeIno = bg.pending
                   /\ bg'.refresher = "select" ]_vars
    /\ [](bg.refresher \in {"send", "assign"}
            => bg.extentMerge /\ bg.mergeIno = <<>> /\ bg.pending # <<>>)

\* The refresher has signalled for the list <<1>>, the merger has received
\* the signal, the list is stored, and a later refresh has stored the list
\* <<2>> over it with the refresher still in its select.
C23_Witness ==
    /\ bg.extentMerge
    /\ bg.mergeIno = <<2>>
    /\ bg.refresher = "select"
    /\ bg.merger \in {"round", "select"}
    /\ bg.todo = <<1>> \/ Did(Merger, "EvictStream")

\* The worker of streamer s takes the request at the head of its queue.
ServedOne(s) == st[s].queue # <<>> /\ st'[s].queue = Tail(st[s].queue)

\* C25: every mutation of a streamer's extent cache and overwrite buffer is
\* made by the streamer's worker: a step that changes either is a step in
\* which the worker serves a request of its queue, never a step of a caller
\* inside Write, Read, Truncate or ExtentMerge.
C25_WorkerOnlyMutates ==
    [][\A s \in Sids :
          <<View(s), st[s].owb>>' # <<View(s), st[s].owb>> => ServedOne(s)]_vars

\* The same for the overwrite buffer while the worker has the Write request
\* of another caller to serve.
NoAppendBesideQueuedWrite ==
    [][\A s \in Sids :
          ( /\ st'[s].owb # st[s].owb
            /\ st[s].queue # <<>>
            /\ Head(st[s].queue).kind = "Write" ) => ServedOne(s)]_vars

\* Every byte of the range of caller c's Write lies in a key of the cache.
AllOverwrites(c) ==
    \A p \in call[c].off .. call[c].off + call[c].len - 1 :
        Covered(st[call[c].sid].keys, p)

\* The Write requests of caller c in the queue of streamer s.
QueuedWrites(s, c) ==
    {j \in 1 .. Len(st[s].queue) :
        st[s].queue[j].kind = "Write" /\ st[s].queue[j].c = c}

\* Caller c's Write takes the step after the latch and the initialized check.
Routes(c) ==
    /\ call[c].op = "Write" /\ call[c].pc = "go"
    /\ st[call[c].sid].initialized
    /\ call'[c] # call[c]

\* The requests reqs are overwrites that split the range of caller c's Write
\* from its offset on, one after the other.
SplitsRange(c, reqs) ==
    /\ \A j \in 1 .. Len(reqs) : reqs[j].over /\ reqs[j].size > 0
    /\ \A j \in 1 .. Len(reqs) :
          reqs[j].fo = call[c].off + TotalSize(SubSeq(reqs, 1, j - 1))
    /\ TotalSize(reqs) = call[c].len

\* Caller c's Write hands its request over in this step: the overwrite
\* buffer and the cache stay, a Terminal streamer refuses with Closed, any
\* other gets exactly one Write request of c at the end of its queue.
HandsOver(c) ==
    LET s == call[c].sid IN
    /\ st'[s].owb = st[s].owb
    /\ View(s)' = View(s)
    /\ IF st[s].status = "Terminal"
       THEN /\ st'[s].queue = st[s].queue
            /\ call'[c].pc = "idle" /\ call'[c].ret = "Closed"
       ELSE /\ st'[s].queue = Append(st[s].queue, [kind |-> "Write", c |-> c])
            /\ call'[c].pc = "wait"

\* The worker of streamer s ends in this step, with requests left in its
\* queue that it empties.
WorkerEnds(s) ==
    /\ st[s].worker = "running"
    /\ st'[s].status = "Terminal" \/ st'[s].worker = "exited"
    /\ Len(st[s].queue) > 1 \/ st[s].done
    /\ st'[s].queue = <<>>

\* C26: Write routing.  With overWriteBuffer set and no append among the
\* planned requests (every byte of the range lies in an existing key when
\* the Write plans) Write appends the planned requests, one after the
\* other, to the overwrite buffer, queues no Write request and returns
\* (sum of the buffered sizes, rowHappened = false, nil).  In every other
\* case (overWriteBuffer unset, or an append among the requests) it leaves
\* the overwrite buffer alone and queues exactly one Write request, whose
\* reply by the worker is what it returns: the reply of serving it, or
\* Closed when the worker ends with the request still in its queue.  A
\* Terminal streamer takes no request and the Write returns Closed.
C26_WriteRouting ==
    /\ [][\A c \in Callers : Routes(c) =>
            LET s == call[c].sid IN
            IF call[c].owbf /\ AllOverwrites(c)
            THEN /\ st'[s].queue = st[s].queue
                 /\ st'[s].owb = st[s].owb
                 /\ IF call[c].len = 0
                    THEN /\ call'[c].pc = "idle" /\ call'[c].ret = "nil"
                         /\ call'[c].n = 0 /\ ~call'[c].row
                    ELSE /\ call'[c].pc = "write:append"
                         /\ SplitsRange(c, call'[c].plan)
                         /\ call'[c].n = 0
            ELSE IF call[c].owbf
                 THEN /\ call'[c].pc = "write:issue"
                      /\ st' = st
                 ELSE HandsOver(c)]_vars
    /\ [][\A c \in Callers :
            (call[c].pc = "write:append" /\ call'[c] # call[c]) =>
                LET s == call[c].sid
                    r == Head(call[c].plan)
                IN  /\ st'[s].queue = st[s].queue
                    /\ View(s)' = View(s)
                    /\ Len(st'[s].owb) = Len(st[s].owb) + 1
                    /\ SubSeq(st'[s].owb, 1, Len(st[s].owb)) = st[s].owb
                    /\ st'[s].owb[Len(st'[s].owb)].fo = r.fo
                    /\ st'[s].owb[Len(st'[s].owb)].size = r.size
                    /\ st'[s].owb[Len(st'[s].owb)].tag = call[c].tag
                    /\ call'[c].plan = Tail(call[c].plan)
                    /\ call'[c].n = call[c].n + r.size
                    /\ IF Len(call[c].plan) = 1
                       THEN /\ call'[c].pc = "idle" /\ call'[c].ret = "nil"
                            /\ call'[c].n = call[c].len /\ ~call'[c].row
                       ELSE call'[c].pc = "write:append"]_vars
    /\ [][\A c \in Callers :
            (call[c].pc = "write:issue" /\ call'[c] # call[c]) => HandsOver(c)]_vars
    /\ [][\A c \in Callers :
            (call[c].op = "Write" /\ call[c].pc = "wait" /\ call'[c] # call[c])
                => /\ call'[c].pc = "idle"
                   /\ IF ServedOne(call[c].sid)
                      THEN Head(st[call[c].sid].queue) = [kind |-> "Write", c |-> c]
                      ELSE /\ WorkerEnds(call[c].sid)
                           /\ call'[c].ret = "Closed"]_vars
    /\ [](\A c \in Callers, s \in Sids :
            /\ Cardinality(QueuedWrites(s, c)) <= 1
            /\ QueuedWrites(s, c) # {}
                 => call[c].op = "Write" /\ call[c].pc = "wait" /\ call[c].sid = s)

\* C26 witness: both routes side by side.  A Write with overWriteBuffer set
\* whose plan held two overwrites has appended the first to the overwrite
\* buffer and holds the second; the Write of the other caller has its one
\* Write request in the worker's queue.
C26_Witness ==
    \E c \in Callers, d \in Callers :
        /\ call[c].op = "Write" /\ call[c].owbf /\ call[c].pc = "write:append"
        /\ call[c].n = 1 /\ Len(call[c].plan) = 1
        /\ st[call[c].sid].owb # <<>>
        /\ call[d].op = "Write" /\ call[d].pc = "wait"
        /\ call[d].sid = call[c].sid
        /\ QueuedWrites(call[d].sid, d) # {}

\* Both routes have come to their end: the Write that appended two requests
\* to the overwrite buffer has returned (2, false, nil) and the queued Write
\* of the other caller what the worker replied.
BothRoutesReturned ==
    \E c \in Callers, d \in Callers :
        /\ c # d
        /\ Returned(c, "Write") /\ call[c].owbf /\ call[c].ret = "nil"
        /\ call[c].len = 2 /\ call[c].n = 2 /\ ~call[c].row
        /\ Len(st[call[c].sid].owb) = 2
        /\ Returned(d, "Write") /\ ~call[d].owbf /\ call[d].ret = "nil"
        /\ call[d].sid = call[c].sid

\* A Write with overWriteBuffer set whose plan holds an append has queued
\* its request.
AppendOfBufferedWriteQueued ==
    \E c \in Callers :
        /\ call[c].op = "Write" /\ call[c].owbf /\ call[c].pc = "wait"
        /\ QueuedWrites(call[c].sid, c) # {}

\* A Write planned an append before the streamer was evicted and came to
\* hand its request over after: it returns Closed.
PlannedBeforeEviction ==
    \E c \in Callers :
        /\ Returned(c, "Write") /\ call[c].owbf /\ call[c].ret = "Closed"
        /\ st[call[c].sid].status = "Terminal"

\* A Write planned overwrites before the streamer was evicted and appended
\* them to the overwrite buffer after.
BufferedAfterEviction ==
    \E c \in Callers :
        /\ Returned(c, "Write") /\ call[c].owbf /\ call[c].ret = "nil"
        /\ call[c].len > 0
        /\ st[call[c].sid].status = "Terminal"
        /\ \E j \in 1 .. Len(st[call[c].sid].owb) :
              st[call[c].sid].owb[j].tag = call[c].tag

\* A Write planned overwrites on extents that a Write served since has
\* replaced: what it planned is not what it would plan now.
StalePlan ==
    \E c \in Callers :
        /\ call[c].op = "Write" /\ call[c].pc = "write:append"
        /\ call[c].n = 0
        /\ call[c].plan # Planned(c)

\* The calls that go through the latch of their streamer, and the callers
\* that run the fetch inside the latch of streamer s.
LatchOps == {"Read", "Write", "Truncate", "ExtentMerge"}

Fetching(s) == {c \in Callers : call[c].pc = "fetch" /\ call[c].sid = s}

\* Caller c's call has found its streamer and is, or was, beyond s.once.Do.
PastLatch(c) ==
    /\ call[c].op \in LatchOps
    /\ call[c].sid \in Sids
    /\ call[c].pc \notin {"latch", "fetch"}

\* C27: whatever the interleaving of concurrent Read, Write, Truncate and
\* ExtentMerge calls on a freshly opened streamer, the fetch inside the
\* latch runs at most once per streamer (the latch goes from new to running
\* to done and never back, and one caller at most is inside it), and no call
\* is beyond the latch before that fetch has ended.
C27_LatchOnce ==
    /\ [][\A s \in Sids :
            st'[s].latch # st[s].latch =>
                \/ /\ st[s].latch = "new" /\ st'[s].latch = "running"
                   /\ \E c \in Callers : Fetching(s)' = {c} /\ Fetching(s) = {}
                \/ /\ st[s].latch = "running" /\ st'[s].latch = "done"
                   /\ Fetching(s)' = {}]_vars
    /\ [](\A s \in Sids :
            /\ Cardinality(Fetching(s)) <= 1
            /\ Fetching(s) # {} <=> st[s].latch = "running")
    /\ [](\A c \in Callers : PastLatch(c) => st[call[c].sid].latch = "done")

\* A caller waits in s.once.Do for the fetch that another caller runs
\* inside the latch of the same streamer.
C27_Waiting ==
    \E c \in Callers, d \in Callers :
        /\ call[c].pc = "latch" /\ call[d].pc = "fetch"
        /\ call[c].sid = call[d].sid

\* C27 witness: both callers are inside calls on the same streamer, one a
\* Read and one a Write, Truncate or ExtentMerge whose request is queued;
\* the latch is done.
C27_Witness ==
    \E c \in Callers, d \in Callers :
        /\ call[c].op = "Read" /\ call[c].pc = "go"
        /\ call[d].op \in {"Write", "Truncate", "ExtentMerge"} /\ call[d].pc = "wait"
        /\ call[c].sid = call[d].sid
        /\ st[call[c].sid].latch = "done"

\* The request the worker of streamer s has at the head of its queue is of
\* one of the kinds.
HeadIs(s, kinds) == st[s].queue # <<>> /\ Head(st[s].queue).kind \in kinds

\* C28 as stated: a streamer opened N times stays registered with its
\* worker running through the first N - 1 CloseStream calls, and its worker
\* exits only after the handle count has reached zero and the final Release
\* was processed.
C28_ExitsOnlyAtZero ==
    \A s \in Sids :
        /\ st[s].refcnt >= 1 => registry[st[s].inode] = s /\ st[s].worker = "running"
        /\ st[s].worker = "exited" => st[s].refcnt = 0

\* What holds of the handle count: it changes one by one, up with every Open
\* served and down with every Release served.  A Release served while more
\* than one handle is left replies nil and leaves the streamer as it is:
\* Initialized, registered, its worker running, nothing flushed.  As long as
\* no EvictStream has made the streamer Terminal, a streamer with a handle
\* is registered with its worker running, and the worker has exited only
\* when the count is zero, after the last Release.
OpenUntilLastRelease ==
    /\ [][\A s \in Sids :
            st'[s].refcnt # st[s].refcnt =>
                \/ /\ HeadIs(s, {"Open"}) /\ ServedOne(s)
                   /\ st'[s].refcnt = st[s].refcnt + 1
                \/ /\ HeadIs(s, {"Release", "MustRelease"})
                   /\ st'[s].refcnt = st[s].refcnt - 1
                   /\ IF st[s].refcnt > 1
                      THEN /\ ServedOne(s)
                           /\ st'[s].status = "Initialized"
                           /\ st'[s].worker = "running"
                           /\ registry' = registry
                           /\ st'[s].owb = st[s].owb /\ store' = store
                           /\ call'[Head(st[s].queue).c].pc = "idle"
                           /\ call'[Head(st[s].queue).c].ret = "nil"
                      ELSE st'[s].status = "Draining"]_vars
    /\ [](\A s \in Sids :
            /\ (st[s].refcnt >= 1 /\ st[s].status # "Terminal")
                 => /\ registry[st[s].inode] = s
                    /\ st[s].worker = "running"
                    /\ st[s].status = "Initialized"
            /\ (st[s].worker = "exited" /\ st[s].refcnt >= 1) => st[s].done
            /\ (st[s].status = "Terminal" /\ ~st[s].done /\ st[s].worker = "exited")
                 => st[s].refcnt = 0)

\* Of two handles of a streamer one has been closed; the CloseStream
\* returned nil and the streamer is registered, Initialized, with its worker
\* running and one handle.
OneHandleClosed ==
    \E c \in Callers :
        /\ Returned(c, "CloseStream") /\ call[c].ret = "nil"
        /\ call[c].sid \in Sids
        /\ st[call[c].sid].refcnt = 1
        /\ st[call[c].sid].status = "Initialized"
        /\ st[call[c].sid].worker = "running"
        /\ registry[call[c].ino] = call[c].sid

\* An EvictStream has returned nil on a streamer with a handle open: the
\* worker has exited and the streamer is out of the registry.
EvictedWithHandle ==
    \E c \in Callers :
        /\ Returned(c, "EvictStream") /\ call[c].ret = "nil"
        /\ call[c].sid \in Sids
        /\ st[call[c].sid].refcnt >= 1
        /\ st[call[c].sid].worker = "exited"
        /\ registry[call[c].ino] = 0

\* The merger moves on from the inode at the head of its list.
MovesOn == bg.merger = "round" /\ bg'.todo # bg.todo

\* C29: for every target inode the merger works on, the stream it opened is
\* closed and evicted afterwards, whether the merge loop ended with finish
\* or with an error: the merger moves on to the next inode only after its
\* CloseStream and EvictStream of the inode have returned (after the merge
\* loop, not before it ended), and the streamer it had opened is then
\* Terminal: out of the registry with its worker ended, or made Terminal by
\* the EvictStream of another caller, which is about to end the worker.
C29_ClosedAndEvicted ==
    /\ [][MovesOn =>
            /\ Did(Merger, "EvictStream")
            /\ call[Merger].ino = Head(bg.todo)
            /\ call[Merger].mine # 0 =>
                  /\ st[call[Merger].mine].status = "Terminal"
                  /\ \/ /\ st[call[Merger].mine].worker = "exited"
                        /\ registry[call[Merger].ino] # call[Merger].mine
                     \/ \E c \in Callers :
                           /\ call[c].op = "EvictStream"
                           /\ call[c].sid = call[Merger].mine
                           /\ call[c].pc \in {"evict:signal", "evict:wait"}]_vars
    /\ [][(call'[Merger].op = "CloseStream" /\ call[Merger].op # "CloseStream")
            => /\ call[Merger].op = "ExtentMerge" /\ call[Merger].pc = "idle"
               /\ call[Merger].finish \/ call[Merger].ret # "nil"
               /\ call'[Merger].ino = call[Merger].ino]_vars
    /\ [][(call'[Merger].op = "EvictStream" /\ call[Merger].op # "EvictStream")
            => /\ Did(Merger, "CloseStream")
               /\ call'[Merger].ino = call[Merger].ino]_vars
    /\ [][(call'[Merger].op = "OpenStream" /\ call[Merger].op # "OpenStream")
            => call[Merger].op = "none"]_vars

\* The stricter reading: when the merger moves on, the streamer it had opened
\* is out of the registry and its worker has ended.
GoneWhenMovingOn ==
    [][(MovesOn /\ call[Merger].mine # 0) =>
            /\ st[call[Merger].mine].worker = "exited"
            /\ registry[call[Merger].ino] # call[Merger].mine]_vars

\* C29 witness: the merger has worked on inode 1, whose merge loop ended
\* with finish after a merge step, and on inode 2, whose loop ended with the
\* error of the failed fetch; both streamers it opened are Terminal, their
\* workers ended, and no streamer is registered.
C29_Witness ==
    /\ bg.merger = "round"
    /\ bg.todo = <<2>>
    /\ Did(Merger, "EvictStream")
    /\ call[Merger].mine = 2
    /\ Len(st) = 2
    /\ st[1].inode = 1 /\ st[1].status = "Terminal" /\ st[1].worker = "exited"
    /\ Len(meta[1].keys) = 1
    /\ st[2].inode = 2 /\ st[2].status = "Terminal" /\ st[2].worker = "exited"
    /\ ~st[2].initialized /\ st[2].latch = "done"
    /\ \A i \in Inodes : registry[i] = 0

\* The merger starts a merge step: its call of ExtentMerge begins.
StartsMergeStep ==
    /\ call[Merger].pc = "idle"
    /\ call'[Merger].op = "ExtentMerge"
    /\ call'[Merger] # call[Merger]

\* C30: once the stop signal is raised the merger starts no further merge
\* step: the stop ends the pause between two steps, and the merger leaves
\* the remaining steps and the remaining inodes of its round alone.
C30_StopEndsRound ==
    [][bg.stopC =>
          /\ ~StartsMergeStep
          /\ ~(call[Merger].pc = "idle" /\ call'[Merger].op = "OpenStream"
                 /\ call'[Merger] # call[Merger])]_vars

\* The pause between two steps alone: after a step that returned finish =
\* false the stop signal is raised, and the next step starts all the same.
StopEndsPause ==
    [][(bg.stopC /\ Did(Merger, "ExtentMerge") /\ ~call[Merger].finish
            /\ call[Merger].ret = "nil")
          => ~StartsMergeStep]_vars

\* Where a call holds the lock of its inode's segment: OpenStream from Lock()
\* to IssueOpenRequest, the other three from Lock() to their Issue*Request
\* or to the Unlock() for an inode without streamer.
HoldsLock == {"open:lookup", "open:insert", "open:issue", "lookup"}

\* Thread c stands in the send of its request to a streamer whose queue is
\* full.
WaitsInSend(c) ==
    /\ Enqueues(c)
    /\ Target(c) \in Sids
    /\ ~CanIssue(Target(c))

\* The worker of streamer s serves in this step a request whose handling
\* writes to data partitions or calls the metadata service.
DoesIO(s) ==
    /\ Serving(s, {"Write", "Flush", "Truncate", "ExtentMerge"})
    /\ ServedOne(s)

\* C31: the lock of a registry segment is never held while data-partition
\* or metadata-service I/O is in progress.  It is held only by a thread
\* inside OpenStream, CloseStream, MustCloseStream or EvictStream, between
\* the lock before the registry lookup and the handing of its request to
\* the streamer, and is free after the call returns; and no thread holds it
\* through the I/O of the worker its request is to go to.
C31_LockNeverAcrossIO ==
    /\ [](\A h \in Shards :
            shardLock[h] # "free" =>
                /\ shardLock[h] \in Threads
                /\ call[shardLock[h]].pc \in HoldsLock
                /\ call[shardLock[h]].op \in
                      {"OpenStream", "CloseStream", "MustCloseStream", "EvictStream"}
                /\ ShardOf(call[shardLock[h]].ino) = h)
    /\ [](\A c \in Threads :
            call[c].pc \notin HoldsLock => \A h \in Shards : shardLock[h] # c)
    /\ [][\A s \in Sids : DoesIO(s) =>
            ~\E c \in Threads :
                /\ WaitsInSend(c) /\ Target(c) = s
                /\ shardLock[ShardOf(call[c].ino)] = c]_vars

\* What holds of the lock: it is held only by a thread inside OpenStream,
\* CloseStream, MustCloseStream or EvictStream between the lock before the
\* registry lookup and the handing of its request to the streamer; a thread
\* that runs the extent fetch, waits for the worker's reply or for the
\* worker's end, or has returned, holds no segment lock.
LockOnlyToQueue ==
    /\ \A h \in Shards :
          shardLock[h] # "free" =>
              /\ shardLock[h] \in Threads
              /\ call[shardLock[h]].pc \in HoldsLock
              /\ call[shardLock[h]].op \in
                    {"OpenStream", "CloseStream", "MustCloseStream", "EvictStream"}
              /\ ShardOf(call[shardLock[h]].ino) = h
    /\ \A c \in Threads :
          call[c].pc \notin HoldsLock => \A h \in Shards : shardLock[h] # c

\* A caller's EvictStream has handed its request over and waits for the
\* worker, a second caller runs the extent fetch of a Write, and the segment
\* of the inode is free.
LockFreeWhileWaiting ==
    \E c \in Callers, d \in Callers :
        /\ call[c].op = "EvictStream" /\ call[c].pc = "wait"
        /\ call[d].op = "Write" /\ call[d].pc = "fetch"
        /\ call[d].ino = call[c].ino
        /\ shardLock[ShardOf(call[c].ino)] = "free"

\* An OpenStream holds the segment lock in the send of its Open request
\* while the queue of the streamer is full with a Write the worker is to
\* serve.
LockHeldInSend ==
    \E c \in Callers :
        /\ call[c].op = "OpenStream" /\ call[c].pc = "open:issue"
        /\ WaitsInSend(c)
        /\ shardLock[ShardOf(call[c].ino)] = c
        /\ Serving(Target(c), {"Write"})

\* The read attempts (calls of s.read) a call has made so far.
RECURSIVE Attempts(_)
Attempts(log) ==
    IF log = <<>> THEN 0
    ELSE (IF Head(log) \in ReadOutcomes THEN 1 ELSE 0) + Attempts(Tail(log))

\* The steps between the two attempts a call has taken so far.
RECURSIVE Recovery(_)
Recovery(log) ==
    IF log = <<>> THEN <<>>
    ELSE (IF Head(log) \in {"flush", "refetch"} THEN <<Head(log)>> ELSE <<>>)
            \o Recovery(Tail(log))

\* C32: one Read makes two read attempts at most.  A second attempt follows
\* only a first one that failed with ExtentNotFound, a Flush that succeeded
\* and a refetch that succeeded; a failed Flush or refetch is returned with
\* one attempt made; the second attempt's failure is returned as it is; and
\* a first attempt that failed with another error is returned with no
\* flush, refetch or retry.
C32_TwoAttemptsAtMost ==
    \A c \in Callers :
        call[c].op = "Read" =>
            /\ Attempts(call[c].log) <= 2
            /\ Attempts(call[c].log) = 2 =>
                  /\ call[c].log[1] = "ExtentNotFound"
                  /\ Recovery(call[c].log) = <<"flush", "refetch">>
                  /\ call[c].pc = "idle"
                  /\ call[c].ret = ErrorOf(call[c].log[Len(call[c].log)])
            /\ (Returned(c, "Read") /\ call[c].ret \in {"FlushFailed", "Closed"}) =>
                  /\ Attempts(call[c].log) = 1
                  /\ Recovery(call[c].log) = <<>>
            /\ (Returned(c, "Read") /\ call[c].ret = "GetExtentsFailed"
                    /\ call[c].log # <<>>) =>
                  /\ Attempts(call[c].log) = 1
                  /\ Recovery(call[c].log) = <<"flush">>
            /\ (call[c].log # <<>> /\ call[c].log[1] \notin {"ok", "ExtentNotFound"}) =>
                  /\ call[c].log = <<call[c].log[1]>>
                  /\ call[c].pc = "idle"
                  /\ call[c].ret = call[c].log[1]

\* C32 witness: the second attempt of a Read failed with ExtentNotFound
\* again, after flush and refetch, and the Read has returned that error.
C32_Witness ==
    \E c \in Callers :
        /\ Returned(c, "Read")
        /\ call[c].ret = "ExtentNotFound"
        /\ Attempts(call[c].log) = 2
        /\ call[c].log[Len(call[c].log)] = "ExtentNotFound"

(***************************************************************************)
(* The drive node's directory listing (DriveNode.handleListDir, listDir). *)
(*                                                                         *)
(* A name is a positive integer, ordered as the names' strings are; 0 is  *)
(* the empty marker.  A client pages one directory: it sends the marker   *)
(* of the page before, NextMarker, until that is empty.  The handler      *)
(* reads the directory once per pass of its loop; between two reads other *)
(* requests create entries in it.                                         *)
(***************************************************************************)

MaxNames == 3

MaxLimit == 2

MaxFilters == 2

Names == 1 .. MaxNames

\* maxPerLimit of handleListDir.
maxPerLimit == 10000 - 1

\* math.MaxUint32, the limit of a request that names none.  4294967295 is
\* beyond the integers of the model checker; the largest of them stands for
\* it, which is above every directory's size and above maxPerLimit as well.
MaxUint32 == 2147483647

\* The name ".usr", which sorts before the other names.
UsrFolder == 1

\* The entries' types and properties, which do not change: name 1 is a
\* folder, name 2 has the properties a: x and b: y.
TypeOf(name) == IF name = UsrFolder THEN "folder" ELSE "file"

PropertiesOf(name) ==
    IF name = 2 THEN [k \in {"a", "b"} |-> IF k = "a" THEN "x" ELSE "y"]
    ELSE [k \in {} |-> "x"]

\* A FileInfo as listDir builds it from Readdir, BatchGetInodes and
\* GetXAttrMap (the id, the size and the times are left out).
FileInfoOf(name) ==
    [Name |-> name, Type |-> TypeOf(name), Properties |-> PropertiesOf(name)]

\* filterKeyMap
filterKeyMap(key) ==
    IF key \in {"name", "propertyKey", "propertyValue"}
    THEN {"contains", "=", "!="}
    ELSE IF key = "type" THEN {"="} ELSE {}

\* validFilterBuilder(builder) returns no error.  The value of a contains
\* filter is its compiled regular expression, kept as the set of the
\* strings it matches.
validFilterBuilder(builder) ==
    /\ builder.operation \in filterKeyMap(builder.key)
    /\ builder.key = "type" => builder.value \in {"file", "folder"}

\* usrFolderFilter
usrFolderFilter == [key |-> "name", operation |-> "!=", value |-> UsrFolder]

\* The filters of the requests: on each key, with each operation, and one
\* that validFilterBuilder rejects.
FilterBuilders ==
    {[key |-> "name", operation |-> "=", value |-> 2],
     [key |-> "name", operation |-> "!=", value |-> 2],
     [key |-> "name", operation |-> "contains", value |-> {1, 3}],
     [key |-> "type", operation |-> "=", value |-> "file"],
     [key |-> "type", operation |-> "=", value |-> "folder"],
     [key |-> "propertyKey", operation |-> "=", value |-> "a"],
     [key |-> "propertyValue", operation |-> "contains", value |-> {"y"}],
     [key |-> "type", operation |-> "!=", value |-> "file"]}

\* filterBuilder.match(v)
match(builder, v) ==
    IF builder.operation = "contains" THEN v \in builder.value
    ELSE IF builder.operation = "=" THEN builder.value = v
    ELSE IF builder.operation = "!=" THEN builder.value # v
    ELSE FALSE

\* The properties whose key (byKey) or value passes the filter.
Pruned(builder, properties, byKey) ==
    LET keep == {k \in DOMAIN properties :
                    match(builder, IF byKey THEN k ELSE properties[k])}
    IN  [k \in keep |-> properties[k]]

\* filterBuilder.matchFileInfo(f): does f pass, and f as the call leaves it
\* (a filter on the properties deletes those that do not pass).
matchFileInfo(builder, f) ==
    IF builder.key = "name" THEN [match |-> match(builder, f.Name), f |-> f]
    ELSE IF builder.key = "type" THEN [match |-> match(builder, f.Type), f |-> f]
    ELSE IF builder.key = "propertyKey"
    THEN [match |-> TRUE,
          f |-> [f EXCEPT !.Properties = Pruned(builder, @, TRUE)]]
    ELSE IF builder.key = "propertyValue"
    THEN [match |-> TRUE,
          f |-> [f EXCEPT !.Properties = Pruned(builder, @, FALSE)]]
    ELSE [match |-> FALSE, f |-> f]

\* The loop over the builders for one file: the builders from the j-th on.
RECURSIVE MatchAll(_, _, _)
MatchAll(builders, j, f) ==
    IF j > Len(builders) THEN [match |-> TRUE, f |-> f]
    ELSE LET r == matchFileInfo(builders[j], f)
         IN  IF r.match THEN MatchAll(builders, j + 1, r.f)
             ELSE [match |-> FALSE, f |-> r.f]

\* The files of fileInfo that pass every builder, as the builders leave
\* them, in their order.
RECURSIVE Matching(_, _)
Matching(builders, fileInfo) ==
    IF fileInfo = <<>> THEN <<>>
    ELSE LET r == MatchAll(builders, 1, Head(fileInfo))
         IN  (IF r.match THEN <<r.f>> ELSE <<>>)
                \o Matching(builders, Tail(fileInfo))

\* The names of a set in ascending order.
RECURSIVE Ascending(_)
Ascending(S) ==
    IF S = {} THEN <<>>
    ELSE LET low == CHOOSE x \in S : \A y \in S : x <= y
         IN  <<low>> \o Ascending(S \ {low})

\* vol.Readdir(ino, marker, limit): the first limit entries after the
\* marker, the marker's own entry left out, as the loop of testDirOp needs
\* it to collect every entry once and to end.
Readdir(dir, marker, limit) ==
    LET after == Ascending({x \in dir : x > marker})
    IN  SubSeq(after, 1, IF Len(after) < limit THEN Len(after) ELSE limit)

\* DriveNode.listDir without an error: the entries of Readdir as FileInfo,
\* sorted by name.
listDir(dir, marker, limit) ==
    LET dirInfos == Readdir(dir, marker, limit)
    IN  [j \in 1 .. Len(dirInfos) |-> FileInfoOf(dirInfos[j])]

\* The requests: a filter is a list of builders.
Requests ==
    UNION {[1 .. k -> FilterBuilders] : k \in 0 .. MaxFilters}

Limits == {0 - 1, 0} \cup (1 .. MaxLimit)

\* A client starts to list a directory from its beginning.  had: the
\* entries that are in the directory from then on.
Listing(dir, root, filter, limit) ==
    [dir |-> dir, had |-> dir, root |-> root, filter |-> filter,
     limit |-> limit, marker |-> 0, pages |-> <<>>, pc |-> "page",
     builders |-> <<>>, lim |-> 0, files |-> <<>>, cur |-> 0,
     isLast |-> FALSE, i |-> 0, remains |-> 0]

InitListing ==
    /\ InitRateUnlimited
    /\ InitRegistry
    /\ InitNoData
    /\ InitQuiet
    /\ mount = Built
    /\ extentSize = unitExtentSize
    /\ sizeArg = 0
    /\ drive \in {Listing(dir, root, filter, limit) :
                     dir \in SUBSET Names, root \in BOOLEAN,
                     filter \in Requests, limit \in Limits}

NotDrive == <<mount, extentSize, sizeArg, rateVars, lifeVars, dataVars, closeVars>>

\* handleListDir up to its loop, for the client's next request: the
\* arguments, the volume and the directory (ok: found without an error),
\* the builders, the limit.
HandleListDir(ok) ==
    /\ drive.pc = "page"
    /\ drive' =
          IF ~ok \/ \E j \in 1 .. Len(drive.filter) :
                        ~validFilterBuilder(drive.filter[j])
          THEN [drive EXCEPT !.pc = "error"]
          ELSE [drive EXCEPT
                   !.builders = (IF drive.root THEN <<usrFolderFilter>> ELSE <<>>)
                                   \o drive.filter,
                   !.lim = IF drive.limit < 0 \/ drive.limit > MaxUint32
                           THEN MaxUint32 ELSE drive.limit,
                   !.files = <<>>, !.cur = drive.marker, !.isLast = FALSE,
                   !.pc = "outer"]
    /\ UNCHANGED NotDrive

\* for len(res.Files) < limit && !isLast: the next pass, or the reply.
ListOuter ==
    /\ drive.pc = "outer"
    /\ drive' =
          IF Len(drive.files) < drive.lim /\ ~drive.isLast
          THEN [drive EXCEPT !.remains = drive.lim - Len(drive.files), !.i = 0,
                             !.pc = "inner"]
          ELSE [drive EXCEPT !.pc = "reply"]
    /\ UNCHANGED NotDrive

\* for i := 0; i < remains && !isLast; i += maxPerLimit: one listDir of the
\* directory as it is now, the new marker, the files that pass the filters.
ListInner(ok) ==
    /\ drive.pc = "inner"
    /\ drive' =
          IF ~(drive.i < drive.remains /\ ~drive.isLast)
          THEN [drive EXCEPT !.pc = "outer"]
          ELSE IF ~ok THEN [drive EXCEPT !.pc = "error"]
          ELSE
            LET n == IF drive.i + maxPerLimit > drive.remains
                     THEN drive.remains - drive.i + 1
                     ELSE maxPerLimit + 1
                fileInfo == listDir(drive.dir, drive.cur, n)
                isLast   == Len(fileInfo) < n
                kept     == IF isLast THEN fileInfo
                            ELSE SubSeq(fileInfo, 1, Len(fileInfo) - 1)
            IN  [drive EXCEPT
                    !.isLast = isLast,
                    !.cur = IF isLast THEN 0 ELSE fileInfo[Len(fileInfo)].Name,
                    !.files = IF Len(drive.builders) > 0
                              THEN @ \o Matching(drive.builders, kept)
                              ELSE @ \o kept,
                    !.i = @ + maxPerLimit]
    /\ UNCHANGED NotDrive

\* The reply: NextMarker and at most limit files.  The client keeps
\* NextMarker for its next request and stops at the empty one.
ListReply ==
    /\ drive.pc = "reply"
    /\ drive' = [drive EXCEPT
          !.pages = Append(@, IF Len(drive.files) > drive.lim
                              THEN SubSeq(drive.files, 1, drive.lim)
                              ELSE drive.files),
          !.marker = drive.cur,
          !.pc = IF drive.cur = 0 THEN "end" ELSE "page"]
    /\ UNCHANGED NotDrive

\* Another request makes an entry in the directory: createFile for a file,
\* createDir for a folder.
createFile(name) ==
    /\ drive.pc \notin {"off", "end", "error"}
    /\ name \notin drive.dir
    /\ TypeOf(name) = "file"
    /\ drive' = [drive EXCEPT !.dir = @ \cup {name}]
    /\ UNCHANGED NotDrive

createDir(name) ==
    /\ drive.pc \notin {"off", "end", "error"}
    /\ name \notin drive.dir
    /\ TypeOf(name) = "folder"
    /\ drive' = [drive EXCEPT !.dir = @ \cup {name}]
    /\ UNCHANGED NotDrive

NextList ==
    \/ \E ok \in BOOLEAN : HandleListDir(ok)
    \/ ListOuter
    \/ \E ok \in BOOLEAN : ListInner(ok)
    \/ ListReply
    \/ \E name \in Names : createFile(name)
    \/ \E name \in Names : createDir(name)

SpecList == InitListing /\ [][NextList]_vars

\* The files of all the pages handed out, in their order, and their names.
RECURSIVE Flat(_)
Flat(pages) ==
    IF pages = <<>> THEN <<>> ELSE Head(pages) \o Flat(Tail(pages))

Listed == LET got == Flat(drive.pages) IN [j \in 1 .. Len(got) |-> got[j].Name]

\* The file of this name passes every builder of the request.
Passes(name) == MatchAll(drive.builders, 1, FileInfoOf(name)).match

\* C33: a directory paged to the end (NextMarker fed back until it is
\* empty, a positive limit) has been handed out whole: every entry that
\* was in it all the time and matches all the filters is in exactly one
\* page, no entry is in two, and no page holds more than limit files.
C33_EveryEntryOnce ==
    (drive.pc = "end" /\ drive.limit > 0) =>
        /\ \A name \in drive.had :
              Passes(name) => \E j \in 1 .. Len(Listed) : Listed[j] = name
        /\ \A j, k \in 1 .. Len(Listed) : j < k => Listed[j] # Listed[k]
        /\ \A j \in 1 .. Len(drive.pages) : Len(drive.pages[j]) <= drive.limit

\* What does hold of the pages: no entry twice, none that is not in the
\* directory or fails a filter, and no page above the limit.
C33_NoDuplicates ==
    (drive.pc \in {"page", "end"} /\ drive.limit > 0) =>
        /\ \A j, k \in 1 .. Len(Listed) : j < k => Listed[j] < Listed[k]
        /\ \A j \in 1 .. Len(Listed) :
              Listed[j] \in drive.dir /\ Passes(Listed[j])
        /\ \A j \in 1 .. Len(drive.pages) :
              Len(drive.pages[j]) <= drive.limit

\* The listing of {1, 2, 3} with limit 1 and no filter has ended, and no
\* entry was made meanwhile: the pages hold 1 and 3, and 2 was left out.
C33_Skipped ==
    /\ drive.pc = "end"
    /\ drive.dir = {1, 2, 3} /\ drive.had = {1, 2, 3}
    /\ drive.builders = <<>>
    /\ drive.limit = 1
    /\ Listed = <<1, 3>>

\* The list the merge signal was raised for: the one the refresher is about
\* to store, or the stored one.
Signalled == IF bg.refresher = "assign" THEN bg.pending ELSE bg.mergeIno

\* C34: the round a merge signal starts works on the list the signal was
\* raised for: what the merger reads after the signal is the newly
\* published list, never the list stored before it.
C34_RoundOfSignalledList ==
    [][(bg.merger = "read" /\ bg'.merger # "read") =>
           bg'.todo = Signalled]_vars

\* The merger has read the empty list stored before the signal and waits
\* again, while the refresher still holds the list it signalled.
C34_OldListRead ==
    /\ bg.refresher = "assign"
    /\ bg.pending # <<>>
    /\ bg.merger = "select"
    /\ bg.todo = <<>>

\* The background tasks and Close take their steps; a select that finds
\* stopC closed again and again takes that case in the end.
SpecStop ==
    /\ InitClientTasks
    /\ [][NextSignal]_vars
    /\ WF_vars(NextSignal)
    /\ SF_vars(RefresherStop)
    /\ SF_vars(MergerStop)

\* C35: Close returns in the end.  Once the stop signal is raised the
\* refresher and the merger both end, whatever they were doing, so that
\* the wait of Close for them ends too.
C35_CloseReturns == bg.stopC ~> TasksEnded

\* Close waits for the background tasks, the merger has taken the stop
\* signal and ended, and the refresher is in its send to the merger.
C35_Stuck ==
    /\ shut.pc = "wait"
    /\ bg.stopC
    /\ bg.merger = "exited"
    /\ bg.refresher = "send"

\* The calls behind the latch next to RefreshExtentsCache, two callers on
\* inode 1, which has just been opened.
NextRefetch ==
    \/ NextLatch
    \/ \E c \in Callers, i \in DataInodes : RefreshExtentsCache(c, i)
    \/ \E c \in Callers : RefreshFetch(c)

SpecRefetch == InitClientEvict /\ [][NextRefetch]_vars

\* Caller c's RefreshExtentsCache on streamer s returns nil in this step.
Refreshes(c, s) ==
    /\ call[c].op = "RefreshExtentsCache" /\ call[c].pc = "refresh"
    /\ call[c].sid = s
    /\ call'[c].pc = "idle" /\ call'[c].ret = "nil"

\* C36: a fetch that fails inside the latch spends the latch.  While the
\* streamer's extents are not initialized, a Write, Truncate, Read of some
\* bytes or ExtentMerge that found the streamer is in the latch, at the
\* check behind it, or has returned GetExtentsFailed; none is queued at the
\* worker or has written to the overwrite buffer; the fetch of the latch
\* is not run again; and only a RefreshExtentsCache that succeeds makes
\* the extents initialized afterwards.
C36_FailedFetchSpendsLatch ==
    /\ [](\A c \in Callers :
            (call[c].op \in LatchOps /\ call[c].sid \in Sids
                /\ ~st[call[c].sid].initialized
                /\ call[c].pc \notin {"latch", "fetch", "go"}) =>
                    /\ call[c].pc = "idle"
                    /\ call[c].ret = "GetExtentsFailed")
    /\ [](\A s \in Sids :
            ~st[s].initialized => st[s].queue = <<>> /\ st[s].owb = <<>>)
    /\ [][\A s \in Sids :
            /\ st[s].latch = "running" => st'[s].latch \in {"running", "done"}
            /\ st[s].latch = "done" =>
                  /\ st'[s].latch = "done"
                  /\ Fetching(s)' = {}
            /\ (st[s].latch = "done" /\ ~st[s].initialized
                    /\ st'[s].initialized) =>
                  \E c \in Callers : Refreshes(c, s)]_vars

\* C36 witness: the fetch of the latch has failed, and both callers have
\* got GetExtentsFailed from the streamer, one for a Read and one for
\* another call; one fetch at most was made for the two.
C36_Witness ==
    \E c \in Callers, d \in Callers :
        /\ Returned(c, "Read") /\ call[c].ret = "GetExtentsFailed"
        /\ call[d].op \in {"Write", "Truncate", "ExtentMerge"}
        /\ call[d].pc = "idle" /\ call[d].ret = "GetExtentsFailed"
        /\ call[c].sid = call[d].sid /\ call[c].sid \in Sids
        /\ st[call[c].sid].latch = "done"
        /\ ~st[call[c].sid].initialized

\* Every facade call on a file that is open or not, on a volume that exists
\* or not: both callers open, close and evict, caller a makes the other
\* calls.
NextFacade ==
    \/ NextLock
    \/ \E c \in Users, i \in DataInodes, r \in EvictRanges : SyncWrite(c, i, r[1], r[2])
    \/ \E c \in Users, ok \in BOOLEAN, dp \in Partitions : SyncWriteNew(c, ok, dp)
    \/ \E c \in Users, i \in DataInodes, r \in EvictRanges :
          SyncWriteToSpecificExtent(c, i, 1, r[1], 0, r[2], 1)
    \/ \E c \in Users, ok \in BOOLEAN : SyncWriteSpecific(c, ok)
    \/ \E c \in Users, i \in DataInodes, r \in EvictRanges : Read(c, i, r[1], r[2])
    \/ \E c \in Users : ReadFirst(c, "ok")
    \/ \E c \in Users, i \in DataInodes : RefreshExtentsCache(c, i)
    \/ \E c \in Users : RefreshFetch(c)
    \/ \E c \in Users, i \in DataInodes : FileSize(c, i)
    \/ \E c \in Users : ExtentsSize(c)

InitClientFacade ==
    /\ InitRateUnlimited
    /\ (InitOpened \/ InitRegistry)
    /\ InitData
    /\ InitQuiet
    /\ InitBuilt

SpecFacade == InitClientFacade /\ [][NextFacade]_vars

\* The calls that need an open stream, and those that end one.
NeedStream ==
    {"Write", "SyncWrite", "SyncWriteToSpecificExtent", "Truncate", "Flush",
     "Read", "ExtentMerge", "RefreshExtentsCache"}

EndStream == {"CloseStream", "MustCloseStream", "EvictStream"}

\* Caller c starts a call in this step.
Starts(c) == calls'[c] = calls[c] + 1

\* The call of c that starts in this step passes the volume check: the
\* volume exists, or the operation does not look at it.
PassesVolume(c) ==
    ~volNotExists \/ call'[c].op \in {"ExtentMerge", "RefreshExtentsCache"}

\* C37: OpenStream alone registers a streamer.  On an inode without one, on
\* a volume that exists, Write, SyncWrite, SyncWriteToSpecificExtent,
\* Truncate, Flush, Read of some bytes, ExtentMerge and RefreshExtentsCache
\* return the error of a stream that is not open, and CloseStream,
\* MustCloseStream and EvictStream return nil; the registry is as before
\* and the segment's lock is free.  FileSize reports valid = false exactly
\* when no streamer is registered as it looks the inode up: then it returns
\* at once; else it reports valid = true with the size and generation of the
\* streamer it has found.
C37_OnlyOpenRegisters ==
    [][/\ \A i \in Inodes :
            (registry[i] = 0 /\ registry'[i] # 0) =>
                \E c \in Threads :
                    /\ call[c].op = "OpenStream" /\ call[c].ino = i
                    /\ shardLock[ShardOf(i)] = c
       /\ \A c \in Callers :
            /\ (Starts(c) /\ call'[c].op \in NeedStream /\ PassesVolume(c)
                    /\ ~(call'[c].op = "Read" /\ call'[c].len = 0)
                    /\ registry[call'[c].ino] = 0) =>
                  /\ call'[c].pc = "idle" /\ call'[c].ret = "NotOpen"
                  /\ registry' = registry /\ st' = st
                  /\ shardLock' = shardLock
                  /\ shardLock[ShardOf(call'[c].ino)] = "free"
            /\ (call[c].op \in EndStream /\ call[c].pc = "lookup"
                    /\ call'[c] # call[c]
                    /\ registry[call[c].ino] = 0) =>
                  /\ call'[c].pc = "idle" /\ call'[c].ret = "nil"
                  /\ registry' = registry /\ st' = st
                  /\ shardLock'[ShardOf(call[c].ino)] = "free"
            /\ (Starts(c) /\ call'[c].op = "FileSize") =>
                  IF registry[call'[c].ino] = 0
                  THEN call'[c].pc = "idle" /\ call'[c].ret = "invalid"
                  ELSE /\ call'[c].pc = "size"
                       /\ call'[c].sid = registry[call'[c].ino]
            /\ (call[c].op = "FileSize" /\ call'[c] # call[c] /\ ~Starts(c)) =>
                  /\ call[c].pc = "size"
                  /\ call'[c].pc = "idle" /\ call'[c].ret = "valid"
                  /\ call'[c].n = st[call[c].sid].fileSize
                  /\ call'[c].gen = st[call[c].sid].gen
                  /\ registry' = registry /\ st' = st]_vars

\* A FileSize has returned valid = true for an inode that has no streamer
\* any more: the streamer it had looked up was removed before it read the
\* size.
C37_ValidAfterRemoval ==
    \E c \in Callers :
        /\ Returned(c, "FileSize") /\ call[c].ret = "valid"
        /\ registry[call[c].ino] = 0

\* C37 witness: no streamer is registered on the volume, which exists;
\* caller a's call that needs one has returned the error, caller b's
\* EvictStream, CloseStream or MustCloseStream has returned nil, and the
\* locks are free.
C37_Witness ==
    \E c \in Callers, d \in Callers :
        /\ ~volNotExists
        /\ \A i \in Inodes : registry[i] = 0
        /\ call[c].op \in {"SyncWriteToSpecificExtent", "RefreshExtentsCache", "Read"}
        /\ call[c].pc = "idle" /\ call[c].ret = "NotOpen"
        /\ call[d].op \in EndStream /\ call[d].pc = "idle" /\ call[d].ret = "nil"
        /\ st = <<>>
        /\ \A h \in Shards : shardLock[h] = "free"

\* Caller c holds inode i open: its OpenStream of i has returned nil and it
\* has made no call since.
HoldsOpen(c, i) ==
    /\ Did(c, "OpenStream")
    /\ call[c].ino = i
    /\ call[c].ret = "nil"

\* C38: the merging of an inode leaves the streamer of a caller that holds
\* the inode open alone: through the merger's OpenStream, merge steps,
\* CloseStream and EvictStream the streamer stays registered, its worker
\* runs and it is not Terminal, so that the caller's next Read, Write or
\* Flush finds it.
C38_HeldStreamerLives ==
    \A c \in Users, i \in Inodes :
        HoldsOpen(c, i) =>
            /\ registry[i] # 0
            /\ st[registry[i]].status # "Terminal"
            /\ st[registry[i]].worker = "running"

\* The merger's EvictStream of inode 1 has returned nil and the inode has no
\* streamer, while the caller still holds it open.
C38_EvictedWhileHeld ==
    \E c \in Users :
        /\ HoldsOpen(c, 1)
        /\ Did(Merger, "EvictStream") /\ call[Merger].ino = 1
        /\ call[Merger].ret = "nil"
        /\ registry[1] = 0

=========================================================================
